---- MODULE Spec2Model ----
(***************************************************************************)
(* The contact store of contact-manager: ContactDatabase                   *)
(* (src/unnamed/part_004), whose operation bodies are repeated line for    *)
(* line by SQLiteContactDatabase (src/unnamed/part_003).                   *)
(*                                                                         *)
(* Representation.                                                         *)
(*  - A JS object is a TLA+ function from field names to values; a field   *)
(*    that is missing (or holds undefined) is not in its DOMAIN.  The      *)
(*    spread {...a, ...b} is  b @@ a.                                      *)
(*  - A Date is [kind |-> "Date", ms |-> t]; the ISO string that           *)
(*    JSON.stringify writes for it is [kind |-> "string", ms |-> t].       *)
(*  - An id is the pair <<t, r>> of Date.now() and Math.random() that      *)
(*    generateId turns into text (the base-36 text of t has one length     *)
(*    for every clock reading from 1972 to 2059, so the text determines    *)
(*    the pair); "" is <<>>.                                               *)
(*  - A Map is the sequence of its entries in insertion order.             *)
(*  - A JSON text is modelled by the value JSON.parse gives for it.        *)
(*  - A string field is a TLA+ string; where the code looks inside one     *)
(*    (toLowerCase, includes, <) the table Spelling gives its code units.  *)
(*                                                                         *)
(* Spec explores every sequence of at most MaxOps operations, with the     *)
(* clock advancing and the storage quota running out between them;         *)
(* SpecRoundTrip lets an export, a clearAll and an import of the exported  *)
(* text follow.  SpecLoad starts from any content of the slot and lets new *)
(* sessions be constructed over it.  SpecSearch builds collections with    *)
(* createContact, toggleFavorite and importContacts and queries them with  *)
(* getAllContacts and searchContacts.  SpecStats adds getStats, SpecTwo a  *)
(* second ContactDatabase constructed over the same slot.                  *)
(*                                                                         *)
(* SpecSqlite is SQLiteContactDatabase as a program of its own: every      *)
(* method is an async function, so a call runs to its first await and its  *)
(* remaining steps run as promise reactions in the order they were queued; *)
(* a second call may be issued before the first has finished, and the      *)
(* backup interval fires between tasks.  SpecOverlap keeps the mutating    *)
(* calls of it only.                                                       *)
(*                                                                         *)
(* SpecExtension is the message handler of the browser extension           *)
(* (src/browser-extensions/firefox): its operations read the stored list,  *)
(* change their copy and write it back, interleaving at the storage calls. *)
(***************************************************************************)
EXTENDS Integers, Sequences, FiniteSets, TLC

VARIABLES
    contacts,   \* this.contacts: Map<string, Contact>
    slot,       \* localStorage item 'contact-manager-db'
    quotaExceeded, \* whether localStorage.setItem throws (the origin's quota is used up)
    now,        \* the reading of Date.now()
    issued,     \* history: the clock reading, random draw and id of every createContact
    rt,         \* history: progress of an export / clearAll / import round trip
    last,       \* history: the last operation, its arguments and its outcome
    other,      \* this.contacts of a second ContactDatabase bound to the same slot
    writer,     \* history: the instance whose setItem stored the slot's text (0: neither)
    db,         \* SQLiteContactDatabase: this.db
    isInitialized, \* SQLiteContactDatabase: this.isInitialized
    timers,     \* the intervals that setInterval started and nothing cleared
    backups,    \* the localStorage items other than the slot
    microtasks, \* the promise reactions waiting to run, in order
    calls,      \* the calls issued on the SQLiteContactDatabase, in order
    storage,    \* browser.storage.local: the value under 'contacts'
    requests    \* the messages handed to the extension's handleMessage, in order

vars == <<contacts, slot, quotaExceeded, now, issued, rt, last, other, writer, db,
          isInitialized, timers, backups, microtasks, calls, storage, requests>>

\* the parts of the state that belong to one program each
sqliteVars == <<db, isInitialized, timers, backups, microtasks, calls>>
extensionVars == <<storage, requests>>

\* ------------------------------------------------------------------ bounds
MaxNow == 1        \* clock readings 0..MaxNow
MaxRand == 2       \* Math.random() takes one of MaxRand values
MaxContacts == 2   \* size of the collection
MaxOps == 2        \* operations issued on the store

\* ------------------------------------------------------------------ values
Date(t) == [kind |-> "Date", ms |-> t]
IsoString(t) == [kind |-> "string", ms |-> t]

\* Date.prototype.toJSON, as JSON.stringify applies it to a field value.
DateToJSON(d) == IF d.kind = "Date" THEN IsoString(d.ms) ELSE d

TimeFields == {"createdAt", "updatedAt"}

\* JSON.stringify of one Contact followed by JSON.parse: Dates become strings.
ToJSON(c) == [f \in DOMAIN c |-> IF f \in TimeFields THEN DateToJSON(c[f]) ELSE c[f]]

EmptyObject == <<>>
EmptyId == <<>>

Null == [kind |-> "null"]
Undefined == [kind |-> "undefined"]
Obj(c) == [kind |-> "object", val |-> c]
Bool(b) == [kind |-> "boolean", val |-> b]
Arr(items) == [kind |-> "array", val |-> items]
Num(n) == [kind |-> "number", val |-> n]

\* ------------------------------------------------------------------ Map
Has(m, k) == \E i \in 1..Len(m) : m[i].key = k

Get(m, k) == m[CHOOSE i \in 1..Len(m) : m[i].key = k].val

MapSet(m, k, v) ==
    IF Has(m, k)
    THEN [i \in 1..Len(m) |-> IF m[i].key = k THEN [key |-> k, val |-> v] ELSE m[i]]
    ELSE Append(m, [key |-> k, val |-> v])

\* a delete that drops the oldest entry when the key is present
MapDelete_First(m, k) == IF Has(m, k) THEN Tail(m) ELSE m

MapDelete(m, k) == SelectSeq(m, LAMBDA e : e.key # k)

Keys(m) == {m[i].key : i \in 1..Len(m)}

Values(m) == [i \in 1..Len(m) |-> m[i].val]

\* ------------------------------------------------------------------ strings
\* TLC strings are atoms, so the text operations of the code work on the
\* UTF-16 code units of a string, given by a table for the strings that occur
\* as field values and search texts.
Spelling ==
       ("" :> <<>>)
    @@ ("John" :> <<"J", "o", "h", "n">>)
    @@ ("Doe" :> <<"D", "o", "e">>)
    @@ ("john@doe.io" :> <<"j", "o", "h", "n", "@", "d", "o", "e", ".", "i", "o">>)
    @@ ("555-0100" :> <<"5", "5", "5", "-", "0", "1", "0", "0">>)
    @@ ("Jane" :> <<"J", "a", "n", "e">>)
    @@ ("Smith" :> <<"S", "m", "i", "t", "h">>)
    @@ ("Acme" :> <<"A", "c", "m", "e">>)
    @@ ("Johnny" :> <<"J", "o", "h", "n", "n", "y">>)
    @@ ("Initech" :> <<"I", "n", "i", "t", "e", "c", "h">>)
    @@ ("Ann" :> <<"A", "n", "n">>)
    @@ ("Lee" :> <<"L", "e", "e">>)
    @@ ("ann@lee.io" :> <<"a", "n", "n", "@", "l", "e", "e", ".", "i", "o">>)
    @@ ("Bob" :> <<"B", "o", "b">>)
    @@ ("Ray" :> <<"R", "a", "y">>)
    @@ ("555-0199" :> <<"5", "5", "5", "-", "0", "1", "9", "9">>)
    @@ ("Cy" :> <<"C", "y">>)
    @@ ("Orr" :> <<"O", "r", "r">>)
    @@ ("adams" :> <<"a", "d", "a", "m", "s">>)
    @@ ("doe@x.io" :> <<"d", "o", "e", "@", "x", ".", "i", "o">>)
    @@ ("555 Ext 7" :> <<"5", "5", "5", " ", "E", "x", "t", " ", "7">>)
    @@ ("doe" :> <<"d", "o", "e">>)
    @@ ("DOE" :> <<"D", "O", "E">>)
    @@ ("Ext" :> <<"E", "x", "t">>)
    @@ ("ext" :> <<"e", "x", "t">>)
    @@ ("555" :> <<"5", "5", "5">>)
    @@ ("acme" :> <<"a", "c", "m", "e">>)
    @@ ("work" :> <<"w", "o", "r", "k">>)

Chars(s) == Spelling[s]

\* the code unit of each character of those strings
CharCode ==
       (" " :> 32)
    @@ ("-" :> 45)
    @@ ("." :> 46)
    @@ ("0" :> 48)
    @@ ("1" :> 49)
    @@ ("5" :> 53)
    @@ ("7" :> 55)
    @@ ("9" :> 57)
    @@ ("@" :> 64)
    @@ ("A" :> 65)
    @@ ("B" :> 66)
    @@ ("C" :> 67)
    @@ ("D" :> 68)
    @@ ("E" :> 69)
    @@ ("I" :> 73)
    @@ ("J" :> 74)
    @@ ("L" :> 76)
    @@ ("O" :> 79)
    @@ ("R" :> 82)
    @@ ("S" :> 83)
    @@ ("a" :> 97)
    @@ ("b" :> 98)
    @@ ("c" :> 99)
    @@ ("d" :> 100)
    @@ ("e" :> 101)
    @@ ("h" :> 104)
    @@ ("i" :> 105)
    @@ ("j" :> 106)
    @@ ("l" :> 108)
    @@ ("m" :> 109)
    @@ ("n" :> 110)
    @@ ("o" :> 111)
    @@ ("r" :> 114)
    @@ ("s" :> 115)
    @@ ("t" :> 116)
    @@ ("x" :> 120)
    @@ ("y" :> 121)

\* the upper-case letters among them and what toLowerCase makes of them
UpperToLower ==
       ("A" :> "a")
    @@ ("B" :> "b")
    @@ ("C" :> "c")
    @@ ("D" :> "d")
    @@ ("E" :> "e")
    @@ ("I" :> "i")
    @@ ("J" :> "j")
    @@ ("L" :> "l")
    @@ ("O" :> "o")
    @@ ("R" :> "r")
    @@ ("S" :> "s")

\* String.prototype.toLowerCase
ToLowerCase(cs) ==
    [i \in 1..Len(cs) |-> IF cs[i] \in DOMAIN UpperToLower THEN UpperToLower[cs[i]] ELSE cs[i]]

\* String.prototype.includes
Includes(cs, part) ==
    \E i \in 0..(Len(cs) - Len(part)) : SubSeq(cs, i + 1, i + Len(part)) = part

\* a < b on two strings: the first differing code unit decides, and a proper
\* prefix is smaller
RECURSIVE StringLess(_, _)
StringLess(a, b) ==
    IF b = <<>> THEN FALSE
    ELSE IF a = <<>> THEN TRUE
    ELSE IF Head(a) # Head(b) THEN CharCode[Head(a)] < CharCode[Head(b)]
    ELSE StringLess(Tail(a), Tail(b))

\* ------------------------------------------------------------------ storage
NoItem == [kind |-> "absent"]

\* JSON.stringify(Object.fromEntries(this.contacts))
Stored(m) ==
    [kind |-> "object",
     entries |-> [i \in 1..Len(m) |-> [key |-> m[i].key, val |-> ToJSON(m[i].val)]]]

\* Object.entries of a parsed array: the indices "0", "1", ... as keys, written
\* <<0>>, <<1>>, ... (no generated id is such a text)
ArrayEntries(items) == [i \in 1..Len(items) |-> [key |-> <<i - 1>>, val |-> items[i]]]

\* loadFromStorage that loses the first entry of the stored object
LoadFromStorage_SkipsFirst(item) ==
    IF item.kind = "object" /\ item.entries # <<>> THEN Tail(item.entries) ELSE <<>>

\* loadFromStorage on the Map the field initializer made: new Map(Object.entries(
\* JSON.parse(stored))) when stored is truthy, and the empty Map when getItem
\* gives null ("absent") or "" ("empty"), when JSON.parse throws ("invalid"),
\* when Object.entries throws on null ("null"), and for a number or a boolean,
\* which has no entries ("value")
LoadFromStorage(item) ==
    IF item.kind = "object" THEN item.entries
    ELSE IF item.kind = "array" THEN ArrayEntries(item.items)
    ELSE <<>>

\* saveToStorage that keeps the entries the slot holds under other keys
SaveToStorage_Merges(m, old, full) ==
    IF full THEN old
    ELSE IF old.kind # "object" THEN Stored(m)
    ELSE [kind |-> "object",
          entries |-> Stored(m).entries \o
              SelectSeq(old.entries, LAMBDA e : ~Has(m, e.key))]

\* saveToStorage: setItem either stores the text or throws, and the throw is caught
SaveToStorage(m, old, full) == IF full THEN old ELSE Stored(m)

\* ------------------------------------------------------------------ operations
\* Each operation is a function of the collection m and its arguments that
\* gives the new collection, what the call returns (or that it throws) and
\* whether the code reaches its saveToStorage() call.

\* generateId without its random part
GenerateId_TimeOnly(t, r) == <<t, 0>>

\* Date.now().toString(36) + Math.random().toString(36).substr(2)
GenerateId(t, r) == <<t, r>>

Outcome(m, ret, threw, save) ==
    [contacts |-> m, ret |-> ret, threw |-> threw, save |-> save]

\* { id, ...contactData, createdAt: now, updatedAt: now, isFavorite: false,
\*   tags: contactData.tags || [] }
NewContact(id, contactData, t) ==
    [createdAt |-> Date(t), updatedAt |-> Date(t), isFavorite |-> FALSE,
     tags |-> IF "tags" \in DOMAIN contactData THEN contactData.tags ELSE <<>>]
        @@ contactData @@ [id |-> id]

\* createContact that stores a JSON copy of the contact it returns
CreateContactOp_StoresCopy(m, contactData, id, t) ==
    LET contact == NewContact(id, contactData, t)
    IN  Outcome(MapSet(m, id, ToJSON(contact)), Obj(contact), FALSE, TRUE)

CreateContactOp(m, contactData, id, t) ==
    LET contact == NewContact(id, contactData, t)
    IN  Outcome(MapSet(m, id, contact), Obj(contact), FALSE, TRUE)

\* this.contacts.get(id) || null
GetContactOp(m, id) == IF Has(m, id) THEN Obj(Get(m, id)) ELSE Null

\* the merge with  tags: contactData.tags  and no fallback to contact.tags
MergeContact_ClearsTags(contact, contactData, t) ==
    LET merged == [updatedAt |-> Date(t)] @@ contactData @@ contact
    IN  IF "tags" \in DOMAIN contactData
        THEN [tags |-> contactData.tags] @@ merged
        ELSE [f \in DOMAIN merged \ {"tags"} |-> merged[f]]

\* the merge with the spread operands swapped: { ...contactData, ...contact, ... }
MergeContact_PriorWins(contact, contactData, t) ==
    LET merged == [updatedAt |-> Date(t)] @@ contact @@ contactData
    IN  IF "tags" \in DOMAIN contactData
        THEN [tags |-> contactData.tags] @@ merged
        ELSE merged

\* { ...contact, ...contactData, updatedAt: new Date(),
\*   tags: contactData.tags || contact.tags }
MergeContact(contact, contactData, t) ==
    LET merged == [updatedAt |-> Date(t)] @@ contactData @@ contact
    IN  IF "tags" \in DOMAIN contactData
        THEN [tags |-> contactData.tags] @@ merged
        ELSE merged

\* updateContact that inserts the partial data when the id is absent
UpdateContactOp_Upsert(m, id, contactData, t) ==
    LET contact == IF Has(m, id) THEN Get(m, id) ELSE [id |-> id]
        updatedContact == MergeContact(contact, contactData, t)
    IN  Outcome(MapSet(m, id, updatedContact), Obj(updatedContact), FALSE, TRUE)

UpdateContactOp(m, id, contactData, t) ==
    IF ~Has(m, id)
    THEN Outcome(m, Null, FALSE, FALSE)
    ELSE LET updatedContact == MergeContact(Get(m, id), contactData, t)
         IN  Outcome(MapSet(m, id, updatedContact), Obj(updatedContact), FALSE, TRUE)

DeleteContactOp(m, id) ==
    LET deleted == Has(m, id)
    IN  Outcome(MapDelete(m, id), Bool(deleted), FALSE, deleted)

\* !contact.isFavorite, where a missing isFavorite reads as undefined
IsFavorite(contact) == "isFavorite" \in DOMAIN contact /\ contact.isFavorite

\* toggleFavorite that sets the flag instead of flipping it
ToggleFavoriteOp_SetsFlag(m, id, t) ==
    IF ~Has(m, id)
    THEN Outcome(m, Null, FALSE, FALSE)
    ELSE LET updatedContact == [isFavorite |-> TRUE, updatedAt |-> Date(t)] @@ Get(m, id)
         IN  Outcome(MapSet(m, id, updatedContact), Obj(updatedContact), FALSE, TRUE)

ToggleFavoriteOp(m, id, t) ==
    IF ~Has(m, id)
    THEN Outcome(m, Null, FALSE, FALSE)
    ELSE LET contact == Get(m, id)
             updatedContact ==
                 [isFavorite |-> ~IsFavorite(contact), updatedAt |-> Date(t)] @@ contact
         IN  Outcome(MapSet(m, id, updatedContact), Obj(updatedContact), FALSE, TRUE)

\* JSON.stringify(Array.from(this.contacts.values()), null, 2)
ExportContactsOp(m) ==
    [kind |-> "array",
     items |-> [i \in 1..Len(m) |-> [kind |-> "object", val |-> ToJSON(m[i].val)]]]

\* the import test without  !this.contacts.has(contact.id)
Importable_IgnoresPresent(m, e) ==
    /\ e.kind = "object"
    /\ "id" \in DOMAIN e.val
    /\ e.val.id # EmptyId

\* contact.id && !this.contacts.has(contact.id), for an element that is not null
Importable(m, e) ==
    /\ e.kind = "object"
    /\ "id" \in DOMAIN e.val
    /\ e.val.id # EmptyId
    /\ ~Has(m, e.val.id)

\* the for..of loop of importContacts: reading .id of a null element throws
RECURSIVE ImportLoop(_, _, _)
ImportLoop(m, items, imported) ==
    IF items = <<>>
    THEN [contacts |-> m, imported |-> imported, threw |-> FALSE]
    ELSE LET e == Head(items)
         IN  IF e.kind = "null"
             THEN [contacts |-> m, imported |-> imported, threw |-> TRUE]
             ELSE IF Importable(m, e)
                  THEN ImportLoop(MapSet(m, e.val.id, e.val), Tail(items), imported + 1)
                  ELSE ImportLoop(m, Tail(items), imported)

\* jsonData is: not JSON at all ("invalid"); JSON for a value that for..of
\* cannot iterate, i.e. an object, a number, a boolean or null ("value"); JSON
\* for a string, whose characters are iterated and carry no id ("string"); or
\* JSON for an array ("array").
ImportContactsOp(m, jsonData) ==
    IF jsonData.kind \in {"invalid", "value"}
    THEN Outcome(m, Undefined, TRUE, FALSE)
    ELSE IF jsonData.kind = "string"
    THEN Outcome(m, Num(0), FALSE, TRUE)
    ELSE LET r == ImportLoop(m, jsonData.items, 0)
         IN  IF r.threw
             THEN Outcome(r.contacts, Undefined, TRUE, FALSE)
             ELSE Outcome(r.contacts, Num(r.imported), FALSE, TRUE)

ClearAllOp(m) == Outcome(<<>>, Undefined, FALSE, TRUE)

\* Array.from(this.contacts.values())
GetAllContactsOp(m) == Values(m)

\* a field that filter(c => c.email) keeps: present and not the empty string
Truthy(contact, field) == field \in DOMAIN contact /\ contact[field] # ""

\* how often the inner forEach meets the tag in one tag list
TagCount(tags, tag) == Cardinality({j \in 1..Len(tags) : tags[j] = tag})

\* byTag[tag] after the two nested forEach loops: one increment for every
\* element of every tag list that equals the tag
RECURSIVE ByTag(_, _)
ByTag(list, tag) ==
    IF list = <<>>
    THEN 0
    ELSE TagCount(Head(list).tags, tag) + ByTag(Tail(list), tag)

\* getStats that reads a missing tags field as the empty list
GetStatsOp_DefaultsTags(m) ==
    LET list == [i \in 1..Len(m) |-> m[i].val @@ [tags |-> <<>>]]
        seen == UNION {{list[i].tags[j] : j \in 1..Len(list[i].tags)} : i \in 1..Len(list)}
    IN  Outcome(m,
                Obj([total |-> Len(list),
                     favorites |-> Cardinality({i \in 1..Len(list) : IsFavorite(list[i])}),
                     withEmail |-> Cardinality({i \in 1..Len(list) : Truthy(list[i], "email")}),
                     withPhone |-> Cardinality({i \in 1..Len(list) : Truthy(list[i], "phone")}),
                     byTag |-> [tag \in seen |-> ByTag(list, tag)]]),
                FALSE, FALSE)

\* getStats: contact.tags.forEach throws a TypeError on the first contact that
\* has no tags field, before anything is returned
GetStatsOp(m) ==
    LET list == Values(m)
        seen == UNION {{list[i].tags[j] : j \in 1..Len(list[i].tags)} : i \in 1..Len(list)}
    IN  IF \E i \in 1..Len(list) : "tags" \notin DOMAIN list[i]
        THEN Outcome(m, Undefined, TRUE, FALSE)
        ELSE Outcome(m,
                     Obj([total |-> Len(list),
                          favorites |-> Cardinality({i \in 1..Len(list) : IsFavorite(list[i])}),
                          withEmail |-> Cardinality({i \in 1..Len(list) : Truthy(list[i], "email")}),
                          withPhone |-> Cardinality({i \in 1..Len(list) : Truthy(list[i], "phone")}),
                          byTag |-> [tag \in seen |-> ByTag(list, tag)]]),
                     FALSE, FALSE)

\* A stage of searchContacts gives the array it leaves, or throws.
Stage(items, threw) == [items |-> items, threw |-> threw]

\* The callback of the search filter on one contact: the operands of || are
\* evaluated in order, the first that is true keeps the contact, and calling
\* toLowerCase or includes on a missing field throws a TypeError.  The search
\* term is lower-cased once; phone is matched as it is stored.
SearchMatch(contact, searchTerm) ==
    LET has(f) == f \in DOMAIN contact
        lower(f) == Includes(ToLowerCase(Chars(contact[f])), searchTerm)
    IN  IF ~has("firstName") THEN "throw"
        ELSE IF lower("firstName") THEN "keep"
        ELSE IF ~has("lastName") THEN "throw"
        ELSE IF lower("lastName") THEN "keep"
        ELSE IF ~has("email") THEN "throw"
        ELSE IF lower("email") THEN "keep"
        ELSE IF ~has("phone") THEN "throw"
        ELSE IF Includes(Chars(contact.phone), searchTerm) THEN "keep"
        ELSE IF has("company") /\ contact.company # "" /\ lower("company") THEN "keep"
        ELSE "drop"

\* if (filters.search) results = results.filter(...)
SearchStage(results, filters) ==
    IF "search" \notin DOMAIN filters \/ filters.search = ""
    THEN Stage(results, FALSE)
    ELSE LET searchTerm == ToLowerCase(Chars(filters.search))
         IN  Stage(SelectSeq(results, LAMBDA c : SearchMatch(c, searchTerm) = "keep"),
                   \E i \in 1..Len(results) : SearchMatch(results[i], searchTerm) = "throw")

\* filters.tags.some(tag => contact.tags.includes(tag))
TagMatch(contact, tags) ==
    \E i \in 1..Len(tags) : \E j \in 1..Len(contact.tags) : contact.tags[j] = tags[i]

\* if (filters.tags && filters.tags.length > 0) results = results.filter(...):
\* contact.tags.includes throws a TypeError on a contact without tags
TagStage(results, filters) ==
    IF "tags" \notin DOMAIN filters \/ filters.tags = <<>>
    THEN Stage(results, FALSE)
    ELSE IF \E i \in 1..Len(results) : "tags" \notin DOMAIN results[i]
    THEN Stage(<<>>, TRUE)
    ELSE Stage(SelectSeq(results, LAMBDA c : TagMatch(c, filters.tags)), FALSE)

\* the favorite filter without its  filters.isFavorite !== undefined  guard
FavoriteStage_Unguarded(results, filters) ==
    Stage(SelectSeq(results,
                    LAMBDA c : /\ "isFavorite" \in DOMAIN filters
                               /\ "isFavorite" \in DOMAIN c
                               /\ c.isFavorite = filters.isFavorite),
          FALSE)

\* if (filters.isFavorite !== undefined) results = results.filter(contact =>
\*     contact.isFavorite === filters.isFavorite)
FavoriteStage(results, filters) ==
    IF "isFavorite" \notin DOMAIN filters
    THEN Stage(results, FALSE)
    ELSE Stage(SelectSeq(results,
                         LAMBDA c : "isFavorite" \in DOMAIN c
                                        /\ c.isFavorite = filters.isFavorite),
               FALSE)

NameKeys == {"firstName", "lastName"}

\* aValue < bValue for the values of the sort field: two strings compare by
\* code unit (ISO strings of timestamps thereby as their instants), two Dates
\* as numbers, and a Date with an ISO string as a number with NaN, which is
\* false either way
ValueLess(sortBy, x, y) ==
    IF sortBy \in TimeFields THEN x.kind = y.kind /\ x.ms < y.ms
    ELSE IF sortBy \in NameKeys
    THEN StringLess(ToLowerCase(Chars(x)), ToLowerCase(Chars(y)))
    ELSE StringLess(Chars(x), Chars(y))

\* the compare function handed to results.sort; a missing value is undefined,
\* for which both comparisons are false
SortCompare(a, b, filters) ==
    LET sortBy == filters.sortBy
        desc == "sortOrder" \in DOMAIN filters /\ filters.sortOrder = "desc"
    IN  IF sortBy \notin DOMAIN a \/ sortBy \notin DOMAIN b THEN 0
        ELSE IF ValueLess(sortBy, a[sortBy], b[sortBy]) THEN (IF desc THEN 1 ELSE 0 - 1)
        ELSE IF ValueLess(sortBy, b[sortBy], a[sortBy]) THEN (IF desc THEN 0 - 1 ELSE 1)
        ELSE 0

Orderings(n) == {p \in [1..n -> 1..n] : \A i, j \in 1..n : p[i] = p[j] => i = j}

\* whether the compare function is a consistent comparator for the elements
ConsistentCompare(results, filters) ==
    LET c(i, j) == SortCompare(results[i], results[j], filters)
        I == 1..Len(results)
    IN  \A i, j, k \in I :
            /\ c(i, j) = 0 - c(j, i)
            /\ (c(i, j) = 0 /\ c(j, k) = 0) => c(i, k) = 0
            /\ (c(i, j) < 0 /\ c(j, k) <= 0) => c(i, k) < 0
            /\ (c(i, j) <= 0 /\ c(j, k) < 0) => c(i, k) < 0

\* Array.prototype.sort: for a consistent comparator the one stable sorted
\* order; for an inconsistent one the order is implementation-defined, any
\* permutation of the elements
SortResults(results, filters) ==
    LET c(i, j) == SortCompare(results[i], results[j], filters)
        n == Len(results)
        sorted(p) == \A k, l \in 1..n :
                         k < l => c(p[k], p[l]) < 0 \/ (c(p[k], p[l]) = 0 /\ p[k] < p[l])
        consistent == ConsistentCompare(results, filters)
    IN  {[k \in 1..n |-> results[p[k]]] :
            p \in {q \in Orderings(n) : consistent => sorted(q)}}

\* if (filters.sortBy) results.sort(...): toLowerCase throws a TypeError on a
\* missing first or last name once two elements are compared
SortStage(results, filters) ==
    IF "sortBy" \notin DOMAIN filters
    THEN {Stage(results, FALSE)}
    ELSE IF /\ filters.sortBy \in NameKeys
            /\ Len(results) > 1
            /\ \E i \in 1..Len(results) : filters.sortBy \notin DOMAIN results[i]
    THEN {Stage(<<>>, TRUE)}
    ELSE {Stage(r, FALSE) : r \in SortResults(results, filters)}

\* searchContacts: the outcomes the call can have
SearchContactsOp(m, filters) ==
    LET searched == SearchStage(Values(m), filters)
        tagged == TagStage(searched.items, filters)
        favorite == FavoriteStage(tagged.items, filters)
    IN  IF searched.threw \/ tagged.threw \/ favorite.threw
        THEN {Outcome(m, Undefined, TRUE, FALSE)}
        ELSE {IF st.threw THEN Outcome(m, Undefined, TRUE, FALSE)
                          ELSE Outcome(m, Arr(st.items), FALSE, FALSE) :
                  st \in SortStage(favorite.items, filters)}

\* ------------------------------------------------------------------ inputs
Times == 0..MaxNow
Randoms == 0..(MaxRand - 1)
Ids == Times \X Randoms

\* ContactFormData values handed to createContact
FormJohn ==
    [firstName |-> "John", lastName |-> "Doe", email |-> "john@doe.io",
     phone |-> "555-0100", tags |-> <<"work">>]
FormJane ==
    [firstName |-> "Jane", lastName |-> "Smith", email |-> "", phone |-> "",
     company |-> "Acme"]
FormDatas == {FormJohn, FormJane}

\* Partial<ContactFormData> values handed to updateContact; the last one is an
\* object with a field the type does not name, which the parameter's structural
\* type accepts and the spread copies
Partials ==
    {EmptyObject, [firstName |-> "Johnny"], [tags |-> <<"vip">>],
     [company |-> "Initech", tags |-> <<>>], [id |-> GenerateId(MaxNow, 0)]}

\* records of an import payload
RecordAnn ==
    [id |-> <<0, 0>>, firstName |-> "Ann", lastName |-> "Lee", email |-> "ann@lee.io",
     phone |-> "", tags |-> <<"work">>, createdAt |-> IsoString(0),
     updatedAt |-> IsoString(0), isFavorite |-> FALSE]
RecordBob ==
    [id |-> <<MaxNow, MaxRand - 1>>, firstName |-> "Bob", lastName |-> "Ray",
     email |-> "", phone |-> "555-0199", createdAt |-> IsoString(MaxNow),
     updatedAt |-> IsoString(0), isFavorite |-> TRUE]
RecordNoId ==
    [firstName |-> "Cy", lastName |-> "Orr", email |-> "", phone |-> "",
     tags |-> <<>>]
Elements ==
    {[kind |-> "object", val |-> RecordAnn], [kind |-> "object", val |-> RecordBob],
     [kind |-> "object", val |-> RecordNoId], [kind |-> "null"]}

\* arrays of no, one or two elements
PayloadLengths == {0, 1, 2}
Arrays ==
    UNION {[1..n -> Elements] : n \in PayloadLengths}

Payloads ==
    {[kind |-> "invalid"], [kind |-> "value"], [kind |-> "string"]}
        \cup {[kind |-> "array", items |-> a] : a \in Arrays}

NoPayload == [kind |-> "none"]

\* ------------------------------------------------------------------ state
RtNone == [stage |-> 0, S |-> <<>>, text |-> NoPayload]

Prev == [op |-> last.op, id |-> last.id, ret |-> last.ret, pre |-> last.pre, at |-> last.at]

\* The record of an operation: its arguments, its outcome, how many
\* localStorage.setItem calls it issued (and whether setItem threw), and the
\* state it started from.
Record(op, id, data, payload, out) ==
    [n |-> last.n + 1, op |-> op, id |-> id, data |-> data, payload |-> payload,
     ret |-> out.ret, threw |-> out.threw, writes |-> IF out.save THEN 1 ELSE 0,
     pre |-> contacts, preSlot |-> slot, preIssued |-> issued, at |-> now,
     random |-> 0, setItemThrew |-> out.save /\ quotaExceeded, prev |-> Prev]

\* the slot as an earlier session of the store left it
Earlier == 0 - 1
InitialSlots ==
    {NoItem,
     Stored(<<[key |-> GenerateId(Earlier, 0),
               val |-> NewContact(GenerateId(Earlier, 0), FormJane, Earlier)]>>)}

\* no SQLiteContactDatabase has been constructed and no extension is loaded
NoDb == [kind |-> "null"]
NoSqlite ==
    /\ db = NoDb
    /\ isInitialized = FALSE
    /\ timers = 0
    /\ backups = <<>>
    /\ microtasks = <<>>
    /\ calls = <<>>
NoExtension ==
    /\ storage = NoItem
    /\ requests = <<>>

\* constructor: loadFromStorage()
Init ==
    /\ slot \in InitialSlots
    /\ contacts = LoadFromStorage(slot)
    /\ quotaExceeded = FALSE
    /\ now = 0
    /\ issued = {}
    /\ rt = RtNone
    /\ last = [n |-> 0, op |-> "new", id |-> EmptyId, data |-> EmptyObject,
               payload |-> NoPayload, ret |-> Undefined, threw |-> FALSE,
               writes |-> 0, pre |-> <<>>, preSlot |-> slot, preIssued |-> {},
               at |-> 0, random |-> 0, setItemThrew |-> FALSE,
               prev |-> [op |-> "none", id |-> EmptyId, ret |-> Undefined,
                         pre |-> <<>>, at |-> 0]]
    /\ other = <<>>
    /\ writer = 0
    /\ NoSqlite
    /\ NoExtension

\* what every operation does with its outcome: the in-memory change, then
\* saveToStorage() when the code reaches it
Apply(out) ==
    /\ contacts' = out.contacts
    /\ slot' = IF out.save THEN SaveToStorage(out.contacts, slot, quotaExceeded) ELSE slot
    /\ writer' = IF out.save /\ ~quotaExceeded THEN 1 ELSE writer
    /\ UNCHANGED <<quotaExceeded, now, other, sqliteVars, extensionVars>>

\* the ids a caller passes: those of the collection and one that is absent
AbsentId == CHOOSE id \in Ids : id \notin Keys(contacts)
IdArgs == Keys(contacts) \cup {AbsentId}

\* ------------------------------------------------------------------ actions
\* the caller issues at most MaxOps operations
Budget == last.n < MaxOps

CreateContact(contactData, r) ==
    LET id == GenerateId(now, r)
        out == CreateContactOp(contacts, contactData, id, now)
    IN  /\ Budget
        /\ Len(out.contacts) <= MaxContacts
        /\ Apply(out)
        /\ issued' = issued \cup {[at |-> now, random |-> r, id |-> id]}
        /\ rt' = RtNone
        /\ last' = [Record("createContact", EmptyId, contactData, NoPayload, out)
                       EXCEPT !.random = r]

GetContact(id) ==
    LET out == Outcome(contacts, GetContactOp(contacts, id), FALSE, FALSE)
    IN  /\ Budget
        /\ Apply(out)
        /\ rt' = RtNone
        /\ last' = Record("getContact", id, EmptyObject, NoPayload, out)
        /\ UNCHANGED issued

UpdateContact(id, contactData) ==
    LET out == UpdateContactOp(contacts, id, contactData, now)
    IN  /\ Budget
        /\ Apply(out)
        /\ rt' = RtNone
        /\ last' = Record("updateContact", id, contactData, NoPayload, out)
        /\ UNCHANGED issued

DeleteContact(id) ==
    LET out == DeleteContactOp(contacts, id)
    IN  /\ Budget
        /\ Apply(out)
        /\ rt' = RtNone
        /\ last' = Record("deleteContact", id, EmptyObject, NoPayload, out)
        /\ UNCHANGED issued

ToggleFavorite(id) ==
    LET out == ToggleFavoriteOp(contacts, id, now)
    IN  /\ Budget
        /\ Apply(out)
        /\ rt' = RtNone
        /\ last' = Record("toggleFavorite", id, EmptyObject, NoPayload, out)
        /\ UNCHANGED issued

ExportContactsCall ==
    LET text == ExportContactsOp(contacts)
        out == Outcome(contacts, Undefined, FALSE, FALSE)
    IN  /\ Apply(out)
        /\ rt' = [stage |-> 1, S |-> contacts, text |-> text]
        /\ last' = Record("exportContacts", EmptyId, EmptyObject, text, out)
        /\ UNCHANGED issued

ImportContactsCall(jsonData) ==
    LET out == ImportContactsOp(contacts, jsonData)
    IN  /\ Len(out.contacts) <= MaxContacts
        /\ Apply(out)
        /\ rt' = IF rt.stage = 2 /\ jsonData = rt.text
                 THEN [rt EXCEPT !.stage = 3]
                 ELSE RtNone
        /\ last' = Record("importContacts", EmptyId, EmptyObject, jsonData, out)
        /\ UNCHANGED issued

ClearAllCall ==
    LET out == ClearAllOp(contacts)
    IN  /\ Apply(out)
        /\ rt' = IF rt.stage = 1 THEN [rt EXCEPT !.stage = 2] ELSE RtNone
        /\ last' = Record("clearAll", EmptyId, EmptyObject, NoPayload, out)
        /\ UNCHANGED issued

ExportContacts == Budget /\ ExportContactsCall

ImportContacts(jsonData) == Budget /\ ImportContactsCall(jsonData)

ClearAll == Budget /\ ClearAllCall

\* the clock advances between operations
Tick ==
    /\ now < MaxNow
    /\ now' = now + 1
    /\ UNCHANGED <<contacts, slot, quotaExceeded, issued, rt, last, other, writer,
                   sqliteVars, extensionVars>>

\* the environment uses up the origin's storage quota
QuotaChange ==
    /\ ~quotaExceeded
    /\ quotaExceeded' = TRUE
    /\ UNCHANGED <<contacts, slot, now, issued, rt, last, other, writer,
                   sqliteVars, extensionVars>>

Next ==
    \/ \E contactData \in FormDatas, r \in Randoms : CreateContact(contactData, r)
    \/ \E id \in IdArgs : GetContact(id)
    \/ \E id \in IdArgs, contactData \in Partials : UpdateContact(id, contactData)
    \/ \E id \in IdArgs : DeleteContact(id)
    \/ \E id \in IdArgs : ToggleFavorite(id)
    \/ ExportContacts
    \/ \E jsonData \in Payloads \cup (IF rt.stage = 2 THEN {rt.text} ELSE {}) :
           ImportContacts(jsonData)
    \/ ClearAll
    \/ Tick
    \/ QuotaChange

Spec == Init /\ [][Next]_vars

\* The same store, where after the MaxOps operations the caller still runs an
\* export, a clearAll and an import of the exported text.
RoundTripOps == MaxOps + 3

RoundTripBudget == last.n >= MaxOps /\ last.n < RoundTripOps

RoundTripExport == RoundTripBudget /\ ExportContactsCall

RoundTripClearAll == RoundTripBudget /\ rt.stage = 1 /\ ClearAllCall

RoundTripImport == RoundTripBudget /\ rt.stage = 2 /\ ImportContactsCall(rt.text)

NextRoundTrip ==
    \/ Next
    \/ RoundTripExport
    \/ RoundTripClearAll
    \/ RoundTripImport

SpecRoundTrip == Init /\ [][NextRoundTrip]_vars

\* The store as a caller builds a collection and queries it.
FormDoe ==
    [firstName |-> "Doe", lastName |-> "adams", email |-> "doe@x.io",
     phone |-> "555 Ext 7", tags |-> <<"work", "vip">>]
SearchForms == FormDatas \cup {FormDoe}

\* an import of one record that has no tags field
SearchPayloads == {[kind |-> "array", items |-> <<[kind |-> "object", val |-> RecordBob]>>]}

\* ContactFilters values handed to searchContacts
SearchTexts == {"", "doe", "DOE", "Ext", "ext", "555", "acme"}
TagLists == {<<>>, <<"work">>, <<"home", "vip">>}
SortKeys == {"firstName", "lastName", "email", "createdAt", "updatedAt"}
SortOrderValues == {"asc", "desc"}
Filters ==
    {EmptyObject}
        \cup {[search |-> t] : t \in SearchTexts}
        \cup {[tags |-> l] : l \in TagLists}
        \cup {[isFavorite |-> b] : b \in BOOLEAN}
        \cup {[sortBy |-> k] : k \in SortKeys}
        \cup {[sortBy |-> k, sortOrder |-> o] : k \in SortKeys, o \in SortOrderValues}
        \cup {[tags |-> <<"work">>, isFavorite |-> TRUE],
              [search |-> "doe", tags |-> <<"work">>, isFavorite |-> FALSE,
               sortBy |-> "lastName", sortOrder |-> "desc"]}

GetAllContacts ==
    LET out == Outcome(contacts, Arr(GetAllContactsOp(contacts)), FALSE, FALSE)
    IN  /\ Budget
        /\ Apply(out)
        /\ rt' = RtNone
        /\ last' = Record("getAllContacts", EmptyId, EmptyObject, NoPayload, out)
        /\ UNCHANGED issued

SearchContacts(filters) ==
    /\ Budget
    /\ \E out \in SearchContactsOp(contacts, filters) :
           /\ Apply(out)
           /\ rt' = RtNone
           /\ last' = Record("searchContacts", EmptyId, filters, NoPayload, out)
           /\ UNCHANGED issued

NextSearch ==
    \/ \E contactData \in SearchForms, r \in Randoms : CreateContact(contactData, r)
    \/ \E id \in IdArgs : ToggleFavorite(id)
    \/ \E jsonData \in SearchPayloads : ImportContacts(jsonData)
    \/ Tick
    \/ GetAllContacts
    \/ \E filters \in Filters : SearchContacts(filters)

SpecSearch == Init /\ [][NextSearch]_vars

\* The store across sessions: the slot starts with whatever the origin's
\* localStorage holds under the key, and the page is reloaded (a new
\* ContactDatabase is constructed over the same slot) between operations.
SlotContents ==
    InitialSlots
        \cup {[kind |-> "empty"], [kind |-> "invalid"], [kind |-> "null"],
              [kind |-> "value"], Stored(<<>>),
              [kind |-> "array", items |-> <<RecordAnn, RecordBob>>]}

InitLoad ==
    /\ slot \in SlotContents
    /\ contacts = LoadFromStorage(slot)
    /\ quotaExceeded = FALSE
    /\ now = 0
    /\ issued = {}
    /\ rt = RtNone
    /\ last = [n |-> 0, op |-> "new", id |-> EmptyId, data |-> EmptyObject,
               payload |-> NoPayload, ret |-> Undefined, threw |-> FALSE,
               writes |-> 0, pre |-> <<>>, preSlot |-> slot, preIssued |-> {},
               at |-> 0, random |-> 0, setItemThrew |-> FALSE,
               prev |-> [op |-> "none", id |-> EmptyId, ret |-> Undefined,
                         pre |-> <<>>, at |-> 0]]
    /\ other = <<>>
    /\ writer = 0
    /\ NoSqlite
    /\ NoExtension

\* new ContactDatabase(): the constructor runs loadFromStorage(), whose catch
\* lets nothing out
NewSession ==
    LET out == Outcome(LoadFromStorage(slot), Undefined, FALSE, FALSE)
    IN  /\ Budget
        /\ Apply(out)
        /\ rt' = RtNone
        /\ last' = Record("new", EmptyId, EmptyObject, NoPayload, out)
        /\ UNCHANGED issued

NextLoad ==
    \/ \E contactData \in FormDatas, r \in Randoms : CreateContact(contactData, r)
    \/ \E id \in IdArgs : DeleteContact(id)
    \/ ClearAll
    \/ QuotaChange
    \/ NewSession

SpecLoad == InitLoad /\ [][NextLoad]_vars

\* The store as a caller builds a collection and asks for its statistics.
\* createContact stores the tag list it is handed, repeated tags included.
FormTwice ==
    [firstName |-> "Ann", lastName |-> "Lee", email |-> "ann@lee.io", phone |-> "",
     tags |-> <<"work", "work">>]
StatsForms == FormDatas \cup {FormTwice}

GetStats ==
    LET out == GetStatsOp(contacts)
    IN  /\ Budget
        /\ Apply(out)
        /\ rt' = RtNone
        /\ last' = Record("getStats", EmptyId, EmptyObject, NoPayload, out)
        /\ UNCHANGED issued

NextStats ==
    \/ \E contactData \in StatsForms, r \in Randoms : CreateContact(contactData, r)
    \/ \E id \in IdArgs : ToggleFavorite(id)
    \/ \E id \in IdArgs : DeleteContact(id)
    \/ \E jsonData \in SearchPayloads : ImportContacts(jsonData)
    \/ GetStats

SpecStats == Init /\ [][NextStats]_vars

\* Two ContactDatabase instances (two tabs of one origin) constructed over the
\* same slot: each loaded the slot once, in its constructor, and from then on
\* reads only its own Map and writes the whole of it.
InitTwo ==
    /\ slot \in InitialSlots
    /\ contacts = LoadFromStorage(slot)
    /\ other = LoadFromStorage(slot)
    /\ writer = 0
    /\ quotaExceeded = FALSE
    /\ now = 0
    /\ issued = {}
    /\ rt = RtNone
    /\ last = [n |-> 0, op |-> "new", id |-> EmptyId, data |-> EmptyObject,
               payload |-> NoPayload, ret |-> Undefined, threw |-> FALSE,
               writes |-> 0, pre |-> <<>>, preSlot |-> slot, preIssued |-> {},
               at |-> 0, random |-> 0, setItemThrew |-> FALSE,
               prev |-> [op |-> "none", id |-> EmptyId, ret |-> Undefined,
                         pre |-> <<>>, at |-> 0]]
    /\ NoSqlite
    /\ NoExtension

\* an operation of the second instance: the change of its own Map, then its
\* saveToStorage() when the code reaches it
OtherApply(op, id, data, out) ==
    /\ other' = out.contacts
    /\ slot' = IF out.save THEN SaveToStorage(out.contacts, slot, quotaExceeded) ELSE slot
    /\ writer' = IF out.save /\ ~quotaExceeded THEN 2 ELSE writer
    /\ rt' = RtNone
    /\ last' = [Record(op, id, data, NoPayload, out) EXCEPT !.pre = other]
    /\ UNCHANGED <<contacts, quotaExceeded, now, sqliteVars, extensionVars>>

OtherIdArgs ==
    Keys(other) \cup {CHOOSE id \in Ids : id \notin Keys(other)}

OtherCreateContact(contactData, r) ==
    LET id == GenerateId(now, r)
        out == CreateContactOp(other, contactData, id, now)
    IN  /\ Budget
        /\ Len(out.contacts) <= MaxContacts
        /\ OtherApply("createContact", EmptyId, contactData, out)
        /\ issued' = issued \cup {[at |-> now, random |-> r, id |-> id, by |-> 2]}

OtherToggleFavorite(id) ==
    /\ Budget
    /\ OtherApply("toggleFavorite", id, EmptyObject, ToggleFavoriteOp(other, id, now))
    /\ UNCHANGED issued

OtherDeleteContact(id) ==
    /\ Budget
    /\ OtherApply("deleteContact", id, EmptyObject, DeleteContactOp(other, id))
    /\ UNCHANGED issued

OtherClearAll ==
    /\ Budget
    /\ OtherApply("clearAll", EmptyId, EmptyObject, ClearAllOp(other))
    /\ UNCHANGED issued

NextTwo ==
    \/ \E contactData \in FormDatas, r \in Randoms : CreateContact(contactData, r)
    \/ \E id \in IdArgs : ToggleFavorite(id)
    \/ \E id \in IdArgs : DeleteContact(id)
    \/ ClearAll
    \/ \E contactData \in FormDatas, r \in Randoms : OtherCreateContact(contactData, r)
    \/ \E id \in OtherIdArgs : OtherToggleFavorite(id)
    \/ \E id \in OtherIdArgs : OtherDeleteContact(id)
    \/ OtherClearAll
    \/ Tick

SpecTwo == InitTwo /\ [][NextTwo]_vars

\* ------------------------------------------------- SQLiteContactDatabase
\* The SQLite-flavored store (src/unnamed/part_003) with autoBackup left at
\* its default, true.  Every method is an async function: it runs up to its
\* first await when it is called, and what follows each await is a promise
\* reaction that runs later, in the order the reactions were queued.  A call is
\* the list k of the reactions it still has to run; the awaited promises are
\* all settled by the time they are awaited, so each await costs one turn of
\* the queue.
MaxCalls == 3      \* calls a caller issues on the store
MaxFires == 1      \* times an interval of scheduleBackup elapses

AutoBackup == TRUE

\* this.db = { contacts: new Map(), transactions: [], isOpen: true }
OpenDb(m, open) == [kind |-> "db", contacts |-> m, isOpen |-> open]

\* the state a method reads and writes
Machine ==
    [db |-> db, slot |-> slot, isInitialized |-> isInitialized, timers |-> timers,
     backups |-> backups]

\* loadFromStorage: this.db.contacts is replaced when the item is truthy and
\* parses to something Object.entries accepts, and is left alone otherwise
SqliteLoad(cur, item) ==
    IF item.kind \in {"object", "array", "value"} THEN LoadFromStorage(item) ELSE cur

\* `${this.config.dbPath}.backup.${Date.now()}` and `backup-${Date.now()}`
BackupPath(t) == <<"./contacts.db.backup.", t>>
BackupKey(t) == <<"backup-", t>>

NoArg == [id |-> EmptyId, data |-> EmptyObject, payload |-> NoPayload, ref |-> <<>>]

Queries == {"getContact", "getAllContacts", "searchContacts", "getStats", "exportContacts"}

\* a call as it is issued; pre is the state it was issued in, idle whether no
\* other call was under way then, alone whether none has been since
NewCall(op, arg, from, m, idle) ==
    [op |-> op, arg |-> arg, from |-> from, status |-> "pending", ret |-> Undefined,
     k |-> <<>>, ran |-> FALSE, idle |-> idle, alone |-> idle, pre |-> m, post |-> m,
     rand |-> 0, at |-> 0, full |-> FALSE, present |-> TRUE, path |-> <<>>,
     data |-> NoPayload]

\* the call settles: its promise is fulfilled with ret or rejected; the
\* rejection of a backup that the interval's callback started is caught there
Finished(c, status, ret, m) ==
    [c EXCEPT !.status = IF status = "threw" /\ c.from = "timer" THEN "caught" ELSE status,
              !.ret = ret,
              !.k = <<>>,
              !.post = m,
              !.present = (c.op \in {"createContact", "updateContact", "toggleFavorite"}
                               /\ ret.kind = "object")
                              => Has(m.db.contacts, ret.val.id)]

\* ensureInitialized() that takes a this.db that is there for an initialized one
EnsureInitialized_SkipsOpenDb(m, rest) ==
    IF m.isInitialized \/ m.db.kind = "db"
    THEN [m |-> m, k |-> rest]
    ELSE [m |-> [m EXCEPT !.db = OpenDb(<<>>, TRUE)],
          k |-> <<"initLoad", "initDone", "ensured">> \o rest]

\* ensureInitialized() as a method calls it: nothing when isInitialized; else
\* initialize() replaces this.db and runs up to `await this.createTables()`,
\* leaving loadFromStorage, then isInitialized = true and scheduleBackup, then
\* the return of ensureInitialized, to three later reactions
EnsureInitialized(m, rest) ==
    IF m.isInitialized
    THEN [m |-> m, k |-> rest]
    ELSE [m |-> [m EXCEPT !.db = OpenDb(<<>>, TRUE)],
          k |-> <<"initLoad", "initDone", "ensured">> \o rest]

\* searchContacts({}): filters.search, filters.tags, filters.isFavorite and
\* filters.sortBy are all undefined, so no stage filters or sorts the array
SearchEverythingOp(m) == Outcome(m, Arr(Values(m)), FALSE, FALSE)

\* what the body of a store operation does to the collection
OpOutcome(m, c, r, t) ==
    CASE c.op = "createContact" -> CreateContactOp(m, c.arg.data, GenerateId(t, r), t)
      [] c.op = "updateContact" -> UpdateContactOp(m, c.arg.id, c.arg.data, t)
      [] c.op = "toggleFavorite" -> ToggleFavoriteOp(m, c.arg.id, t)
      [] c.op = "deleteContact" -> DeleteContactOp(m, c.arg.id)
      [] c.op = "clearAll" -> ClearAllOp(m)
      [] c.op = "importContacts" -> ImportContactsOp(m, c.arg.payload)
      [] c.op = "getContact" -> Outcome(m, GetContactOp(m, c.arg.id), FALSE, FALSE)
      [] c.op = "getAllContacts" -> Outcome(m, Arr(GetAllContactsOp(m)), FALSE, FALSE)
      [] c.op = "searchContacts" -> SearchEverythingOp(m)
      [] c.op = "getStats" -> GetStatsOp(m)
      [] c.op = "exportContacts" ->
             Outcome(m, [kind |-> "text", val |-> ExportContactsOp(m)], FALSE, FALSE)

\* the part of a method that runs when it is called.  close() saves and then
\* awaits; every other method awaits ensureInitialized() first.
Begin(m, c, full) ==
    IF c.op = "close"
    THEN IF m.db.kind = "db" /\ m.db.isOpen
         THEN [m |-> [m EXCEPT !.slot = SaveToStorage(m.db.contacts, m.slot, full)],
               c |-> [c EXCEPT !.k = <<"closed">>]]
         ELSE [m |-> m, c |-> Finished(c, "returned", Undefined, m)]
    ELSE LET e == EnsureInitialized(m, <<"body">>)
         IN  [m |-> e.m, c |-> [c EXCEPT !.k = e.k]]

\* one reaction of the call c, with the random draw r, the clock reading t and
\* whether setItem throws
Step(m, c, r, t, full) ==
    LET pc == Head(c.k)
        rest == Tail(c.k)
        go == [c EXCEPT !.k = rest, !.ran = TRUE]
    IN  CASE pc = "initLoad" ->
                 [m |-> [m EXCEPT !.db.contacts = SqliteLoad(m.db.contacts, m.slot)], c |-> go]
          [] pc = "initDone" ->
                 [m |-> [m EXCEPT !.isInitialized = TRUE,
                                  !.timers = IF AutoBackup THEN @ + 1 ELSE @],
                  c |-> go]
          [] pc \in {"ensured", "importRet"} -> [m |-> m, c |-> go]
          [] pc = "closed" ->
                 LET m2 == [m EXCEPT !.db.isOpen = FALSE, !.isInitialized = FALSE]
                 IN  [m |-> m2, c |-> Finished(go, "returned", Undefined, m2)]
          [] pc = "body" /\ c.op = "backup" ->
                 LET e == EnsureInitialized(m, <<"exportBody", "backupWrite">>)
                 IN  [m |-> e.m, c |-> [go EXCEPT !.path = BackupPath(t), !.k = e.k]]
          [] pc = "exportBody" ->
                 [m |-> m, c |-> [go EXCEPT !.data = ExportContactsOp(m.db.contacts)]]
          [] pc = "backupWrite" ->
                 IF full
                 THEN [m |-> m, c |-> Finished(go, "threw", Undefined, m)]
                 ELSE LET m2 == [m EXCEPT !.backups = MapSet(@, BackupKey(t), c.data)]
                      IN  [m |-> m2,
                           c |-> Finished(go, "returned", [kind |-> "ref", val |-> c.path], m2)]
          [] pc = "body" /\ c.op = "restore" ->
                 IF ~Has(m.backups, c.arg.ref)
                 THEN [m |-> m, c |-> Finished(go, "returned", Undefined, m)]
                 ELSE LET e == EnsureInitialized(m, <<"importBody", "importRet", "restoreRet">>)
                      IN  [m |-> e.m,
                           c |-> [go EXCEPT !.data = Get(m.backups, c.arg.ref), !.k = e.k]]
          [] pc = "importBody" ->
                 LET out == ImportContactsOp(m.db.contacts, c.data)
                     m2 == [m EXCEPT !.db.contacts = out.contacts,
                                     !.slot = IF out.save
                                              THEN SaveToStorage(out.contacts, @, full)
                                              ELSE @]
                 IN  IF out.threw
                     THEN [m |-> m2, c |-> Finished(go, "threw", Undefined, m2)]
                     ELSE [m |-> m2, c |-> go]
          [] pc = "restoreRet" -> [m |-> m, c |-> Finished(go, "returned", Undefined, m)]
          [] pc = "ret" -> [m |-> m, c |-> Finished(go, "returned", c.ret, m)]
          [] pc = "body" /\ c.op \notin {"backup", "restore"} ->
                 LET out == OpOutcome(m.db.contacts, c, r, t)
                     m2 == [m EXCEPT !.db.contacts = out.contacts,
                                     !.slot = IF out.save
                                              THEN SaveToStorage(out.contacts, @, full)
                                              ELSE @]
                     c2 == [go EXCEPT !.rand = r, !.at = t, !.full = full]
                 IN  IF out.threw THEN [m |-> m2, c |-> Finished(c2, "threw", Undefined, m2)]
                     ELSE IF out.save
                     THEN [m |-> m2, c |-> [c2 EXCEPT !.ret = out.ret, !.k = <<"ret">>]]
                     ELSE [m |-> m2, c |-> Finished(c2, "returned", out.ret, m2)]

\* new SQLiteContactDatabase(): nothing is read or opened until the first call
InitSqlite ==
    /\ slot \in InitialSlots
    /\ contacts = <<>>
    /\ other = <<>>
    /\ writer = 0
    /\ quotaExceeded = FALSE
    /\ now = 0
    /\ issued = {}
    /\ rt = RtNone
    /\ last = [n |-> 0, op |-> "new", id |-> EmptyId, data |-> EmptyObject,
               payload |-> NoPayload, ret |-> Undefined, threw |-> FALSE,
               writes |-> 0, pre |-> <<>>, preSlot |-> slot, preIssued |-> {},
               at |-> 0, random |-> 0, setItemThrew |-> FALSE,
               prev |-> [op |-> "none", id |-> EmptyId, ret |-> Undefined,
                         pre |-> <<>>, at |-> 0]]
    /\ NoSqlite
    /\ NoExtension

SetMachine(m) ==
    /\ db' = m.db
    /\ slot' = m.slot
    /\ isInitialized' = m.isInitialized
    /\ timers' = m.timers
    /\ backups' = m.backups
    /\ UNCHANGED <<contacts, quotaExceeded, now, issued, rt, last, other, writer,
                   extensionVars>>

Pending == {i \in 1..Len(calls) : calls[i].status = "pending"}
FromCaller == {i \in 1..Len(calls) : calls[i].from = "caller"}

\* A call is issued from a task: either no call is under way, or one that the
\* same task issued without awaiting it is, none of whose reactions has run.
Issue(op, arg) ==
    LET idle == Pending = {}
        b == Begin(Machine, NewCall(op, arg, "caller", Machine, idle), quotaExceeded)
    IN  /\ Cardinality(Pending) <= 1
        /\ \A i \in Pending : calls[i].from = "caller" /\ ~calls[i].ran
        /\ SetMachine(b.m)
        /\ calls' = Append([i \in 1..Len(calls) |->
                               IF i \in Pending THEN [calls[i] EXCEPT !.alone = FALSE]
                               ELSE calls[i]],
                           b.c)
        /\ microtasks' = IF b.c.status = "pending"
                         THEN Append(microtasks, Len(calls) + 1)
                         ELSE microtasks

\* the ids a caller knows: those of the collection and those of the slot
SqliteIdArgs ==
    (IF db.kind = "db" THEN Keys(db.contacts) ELSE {}) \cup Keys(LoadFromStorage(slot))

\* the references a caller passes to restore: what a backup() returned, and
\* the key a backup() stored its snapshot under
RestoreArgs ==
    {calls[i].ret.val : i \in {j \in 1..Len(calls) : calls[j].ret.kind = "ref"}}
        \cup Keys(backups)

\* the caller issues at most MaxCalls calls
CallBudget == Cardinality(FromCaller) < MaxCalls

CallCreateContact ==
    CallBudget /\ Issue("createContact", [NoArg EXCEPT !.data = FormJohn])

CallUpdateContact(id, contactData) ==
    CallBudget /\ Issue("updateContact", [NoArg EXCEPT !.id = id, !.data = contactData])

CallToggleFavorite(id) ==
    CallBudget /\ Issue("toggleFavorite", [NoArg EXCEPT !.id = id])

CallDeleteContact(id) ==
    CallBudget /\ Issue("deleteContact", [NoArg EXCEPT !.id = id])

CallClearAll == CallBudget /\ Issue("clearAll", NoArg)

CallImportContacts(jsonData) ==
    CallBudget /\ Issue("importContacts", [NoArg EXCEPT !.payload = jsonData])

CallGetContact(id) == CallBudget /\ Issue("getContact", [NoArg EXCEPT !.id = id])

CallQuery(op) == CallBudget /\ Issue(op, NoArg)

CallBackup == CallBudget /\ Issue("backup", NoArg)

CallRestore(ref) == CallBudget /\ Issue("restore", [NoArg EXCEPT !.ref = ref])

CallClose == CallBudget /\ Issue("close", NoArg)

\* the reaction at the head of the queue runs; a call that awaits again goes
\* to the back
RunMicrotask ==
    /\ microtasks # <<>>
    /\ LET i == Head(microtasks)
           c == calls[i]
       IN  \E r \in IF Head(c.k) = "body" /\ c.op = "createContact" THEN Randoms ELSE {0} :
               LET s == Step(Machine, c, r, now, quotaExceeded)
               IN  /\ SetMachine(s.m)
                   /\ calls' = [calls EXCEPT ![i] = s.c]
                   /\ microtasks' = IF s.c.status = "pending"
                                    THEN Append(Tail(microtasks), i)
                                    ELSE Tail(microtasks)

\* an interval elapses: its callback runs as a task of its own and calls
\* backup() inside try / catch
TimerFire ==
    LET b == Begin(Machine, NewCall("backup", NoArg, "timer", Machine, TRUE), quotaExceeded)
    IN  /\ timers > 0
        /\ microtasks = <<>>
        /\ Cardinality({i \in 1..Len(calls) : calls[i].from = "timer"}) < MaxFires
        /\ SetMachine(b.m)
        /\ calls' = Append(calls, b.c)
        /\ microtasks' = Append(microtasks, Len(calls) + 1)

\* between tasks the quota runs out
SqliteQuotaChange == microtasks = <<>> /\ QuotaChange

NextSqlite ==
    \/ CallCreateContact
    \/ \E id \in SqliteIdArgs : CallToggleFavorite(id)
    \/ \E id \in SqliteIdArgs : CallDeleteContact(id)
    \/ CallClearAll
    \/ \E jsonData \in SearchPayloads : CallImportContacts(jsonData)
    \/ \E id \in SqliteIdArgs : CallGetContact(id)
    \/ \E op \in Queries \ {"getContact"} : CallQuery(op)
    \/ CallBackup
    \/ \E ref \in RestoreArgs : CallRestore(ref)
    \/ CallClose
    \/ RunMicrotask
    \/ TimerFire
    \/ SqliteQuotaChange

SpecSqlite == InitSqlite /\ [][NextSqlite]_vars

\* The same store when a caller issues only the mutating operations, awaiting
\* a call or not before it issues the next.
OverlapPartials == {[firstName |-> "Johnny"]}

NextOverlap ==
    \/ CallCreateContact
    \/ \E id \in SqliteIdArgs, contactData \in OverlapPartials :
           CallUpdateContact(id, contactData)
    \/ \E id \in SqliteIdArgs : CallToggleFavorite(id)
    \/ \E id \in SqliteIdArgs : CallDeleteContact(id)
    \/ CallClearAll
    \/ \E jsonData \in SearchPayloads : CallImportContacts(jsonData)
    \/ RunMicrotask
    \/ SqliteQuotaChange

SpecOverlap == InitSqlite /\ [][NextOverlap]_vars

\* ------------------------------------------------------------------ extension
\* The message handler of the browser extension.  There are two of them in the
\* sources, FirefoxContactManager of background/background.js ("background")
\* and ContactManagerBackground of popup/popup.js ("popup"); both keep the
\* contact list as one array under the key 'contacts' of the extension's
\* storage area, and every operation reads that array, works on its copy and
\* writes the whole array back.  handleMessage is an async function: it runs to
\* its first storage call when the message arrives and goes on when that call
\* completes, so the handling of several messages interleaves at the storage
\* calls.  requests[i].pc is the storage call request i waits for.
MaxRequests == 2   \* messages sent to the handler

Handlers == {"background", "popup"}

Actions ==
    {"getContacts", "saveContact", "updateContact", "deleteContact",
     "searchContacts", "getStats", "exportContacts", "importContacts",
     "toggleFavorite", "clearAll"}

\* the case labels of the switch in handleMessage
Cases(handler) ==
    IF handler = "background" THEN Actions ELSE Actions \ {"clearAll"}

\* sendResponse({ success: true, data })
Success(data) == [success |-> TRUE, data |-> data]

\* sendResponse({ success: false, error })
Failure(error) == [success |-> FALSE, error |-> error]

\* result.contacts || []
StoredContacts(item) == IF item = NoItem THEN <<>> ELSE item.val

IdsOf(list) == {list[i].id : i \in 1..Len(list)}

\* contacts.findIndex(c => c.id === id), counted from 1; 0 when there is none
FindIndex(list, id) ==
    IF id \in IdsOf(list)
    THEN CHOOSE i \in 1..Len(list) :
             list[i].id = id /\ \A j \in 1..(i - 1) : list[j].id # id
    ELSE 0

\* a message as it arrives: request.action, request.id, request.data,
\* request.query (request.data is the JSON text for importContacts)
NewRequest(handler, action, id, data, query, jsonData) ==
    [handler |-> handler, action |-> action, id |-> id, data |-> data,
     query |-> query, jsonData |-> jsonData, pc |-> "received", list |-> <<>>,
     ret |-> Undefined, threw |-> FALSE, responses |-> <<>>]

Answered(r, response) ==
    [r EXCEPT !.pc = "done", !.responses = Append(@, response)]

\* the operation throws: catch (error) { sendResponse({ success: false, ... }) }
Thrown(r, error) == [Answered(r, Failure(error)) EXCEPT !.threw = TRUE]

\* await this.saveContacts(list), the operation returning ret after it
Saving(r, list, ret) == [r EXCEPT !.pc = "set", !.list = list, !.ret = ret]

\* handleMessage up to the first storage call.  The default case of the
\* background handler throws, the one of the popup handler answers itself;
\* importContacts parses its text before it reads the storage.
HandleMessage(r) ==
    IF r.action \notin Cases(r.handler)
    THEN IF r.handler = "background"
         THEN Thrown(r, <<"Unknown action: ", r.action>>)
         ELSE Answered(r, Failure(<<"Unknown action">>))
    ELSE IF r.action = "importContacts" /\ r.jsonData.kind = "invalid"
    THEN Thrown(r, <<"Invalid import data format">>)
    ELSE IF r.action = "clearAll"
    THEN [r EXCEPT !.pc = "remove"]
    ELSE [r EXCEPT !.pc = "get"]

\* { id: this.generateId(), ...contactData, createdAt, updatedAt,
\*   isFavorite: false, tags: contactData.tags || [] }; the popup handler has
\* no tags line
SavedContact(handler, contactData, id, t) ==
    LET made == [createdAt |-> IsoString(t), updatedAt |-> IsoString(t),
                 isFavorite |-> FALSE] @@ contactData @@ [id |-> id]
    IN  IF handler = "background" /\ "tags" \notin DOMAIN contactData
        THEN [tags |-> <<>>] @@ made
        ELSE made

\* { ...contacts[index], ...contactData, updatedAt,
\*   tags: contactData.tags || contacts[index].tags }
UpdatedContact(contact, contactData, t) ==
    [updatedAt |-> IsoString(t)] @@ contactData @@ contact

\* contact.isFavorite = !contact.isFavorite; contact.updatedAt = ...
ToggledContact(contact, t) ==
    [isFavorite |-> ~IsFavorite(contact), updatedAt |-> IsoString(t)] @@ contact

\* The callback of the filter of searchContacts: the five operands of the
\* store's search and, in the background handler, contact.tags.some(...).
QueryMatch(handler, contact, searchTerm) ==
    LET first == SearchMatch(contact, searchTerm)
    IN  IF first # "drop" \/ handler = "popup" THEN first
        ELSE IF "tags" \notin DOMAIN contact THEN "throw"
        ELSE IF \E i \in 1..Len(contact.tags) :
                    Includes(ToLowerCase(Chars(contact.tags[i])), searchTerm)
             THEN "keep"
             ELSE "drop"

\* the for..of loop of importContacts.  The background handler tests an id
\* against the ids read from the storage, the popup handler against the list
\* as it grows; reading .id of a null element throws.
RECURSIVE ImportInto(_, _, _, _, _)
ImportInto(handler, existingIds, list, items, imported) ==
    IF items = <<>>
    THEN [list |-> list, imported |-> imported, threw |-> FALSE]
    ELSE LET e == Head(items)
             known == IF handler = "background" THEN existingIds ELSE IdsOf(list)
         IN  IF e.kind = "null"
             THEN [list |-> list, imported |-> imported, threw |-> TRUE]
             ELSE IF /\ e.kind = "object"
                     /\ "id" \in DOMAIN e.val
                     /\ e.val.id # EmptyId
                     /\ e.val.id \notin known
                  THEN ImportInto(handler, existingIds, Append(list, e.val),
                                  Tail(items), imported + 1)
                  ELSE ImportInto(handler, existingIds, list, Tail(items), imported)

\* the contacts as the Map getStats of the store walks
AsMap(list) == [i \in 1..Len(list) |-> [key |-> list[i].id, val |-> list[i]]]

\* The rest of an operation once  await this.getContacts()  gave list: up to
\* its  await this.saveContacts(...)  for an operation that writes, up to the
\* response otherwise.
AfterGet(r, list, t, rand) ==
    LET index == FindIndex(list, r.id)
    IN  CASE r.action = "getContacts" -> Answered(r, Success(Arr(list)))
          [] r.action = "saveContact" ->
                LET newContact ==
                        SavedContact(r.handler, r.data, GenerateId(t, rand), t)
                IN  Saving(r, Append(list, newContact), Obj(newContact))
          [] r.action = "updateContact" ->
                IF index = 0
                THEN Thrown(r, <<"Contact not found">>)
                ELSE LET updated == UpdatedContact(list[index], r.data, t)
                     IN  Saving(r, [list EXCEPT ![index] = updated], Obj(updated))
          [] r.action = "deleteContact" ->
                LET filteredContacts == SelectSeq(list, LAMBDA c : c.id # r.id)
                IN  IF r.handler = "background" /\ Len(filteredContacts) = Len(list)
                    THEN Answered(r, Success(Bool(FALSE)))
                    ELSE Saving(r, filteredContacts, Bool(TRUE))
          [] r.action = "searchContacts" ->
                IF r.query = ""
                THEN Answered(r, Success(Arr(list)))
                ELSE LET searchTerm == ToLowerCase(Chars(r.query))
                         match(c) == QueryMatch(r.handler, c, searchTerm)
                     IN  IF \E i \in 1..Len(list) : match(list[i]) = "throw"
                         THEN Thrown(r, <<"TypeError">>)
                         ELSE Answered(r, Success(Arr(
                                  SelectSeq(list, LAMBDA c : match(c) = "keep"))))
          [] r.action = "getStats" ->
                LET out == GetStatsOp(AsMap(list))
                IN  IF out.threw
                    THEN Thrown(r, <<"TypeError">>)
                    ELSE Answered(r, Success(out.ret))
          [] r.action = "exportContacts" ->
                Answered(r, Success([kind |-> "text", items |-> list]))
          [] r.action = "importContacts" ->
                IF r.jsonData.kind # "array"
                THEN Thrown(r, <<"Invalid import data format">>)
                ELSE LET loop == ImportInto(r.handler, IdsOf(list), list,
                                            r.jsonData.items, 0)
                     IN  IF loop.threw
                         THEN Thrown(r, <<"Invalid import data format">>)
                         ELSE Saving(r, loop.list,
                                     IF r.handler = "background"
                                     THEN Num(loop.imported)
                                     ELSE Obj([imported |-> loop.imported,
                                               total |-> Len(loop.list)]))
          [] r.action = "toggleFavorite" ->
                IF index = 0
                THEN Thrown(r, <<"Contact not found">>)
                ELSE LET contact == ToggledContact(list[index], t)
                     IN  Saving(r, [list EXCEPT ![index] = contact], Obj(contact))

\* The end of an operation that writes: saveContacts rethrows what
\* storage.local.set rejects with, and importContacts turns that into its
\* fixed message.
AfterSet(r, rejected) ==
    IF rejected
    THEN Thrown(r, IF r.action = "importContacts"
                   THEN <<"Invalid import data format">>
                   ELSE <<"QuotaExceededError">>)
    ELSE Answered(r, Success(r.ret))

\* the storage area holds nothing, or the list with one contact saved earlier
InitialStorage ==
    {NoItem, Arr(<<SavedContact("background", FormJane, GenerateId(Earlier, 0), Earlier)>>)}

\* the handler is registered and no message has arrived
InitExtension ==
    /\ slot = NoItem
    /\ contacts = <<>>
    /\ other = <<>>
    /\ writer = 0
    /\ quotaExceeded = FALSE
    /\ now = 0
    /\ issued = {}
    /\ rt = RtNone
    /\ last = [n |-> 0, op |-> "new", id |-> EmptyId, data |-> EmptyObject,
               payload |-> NoPayload, ret |-> Undefined, threw |-> FALSE,
               writes |-> 0, pre |-> <<>>, preSlot |-> slot, preIssued |-> {},
               at |-> 0, random |-> 0, setItemThrew |-> FALSE,
               prev |-> [op |-> "none", id |-> EmptyId, ret |-> Undefined,
                         pre |-> <<>>, at |-> 0]]
    /\ NoSqlite
    /\ storage \in InitialStorage
    /\ requests = <<>>

\* ids a message names: the ids in the storage area and one that is in no list
RequestIds == IdsOf(StoredContacts(storage)) \cup {GenerateId(Earlier, 1)}

QueryTexts == {"", "doe"}

ImportTexts ==
    {[kind |-> "invalid"], [kind |-> "value"],
     [kind |-> "array", items |-> <<Obj(RecordBob)>>],
     [kind |-> "array", items |-> <<Obj(RecordBob), Obj(RecordBob)>>],
     [kind |-> "array", items |-> <<Obj(RecordBob), Null>>]}

\* the messages the popup and the content script send, and one no case names
Messages(handler) ==
    LET msg(action, id, data, query, jsonData) ==
            NewRequest(handler, action, id, data, query, jsonData)
    IN  {msg(a, EmptyId, EmptyObject, "", NoPayload) :
            a \in {"getContacts", "getStats", "exportContacts", "clearAll", "ping"}}
        \cup {msg("saveContact", EmptyId, FormJohn, "", NoPayload)}
        \cup {msg("updateContact", id, [firstName |-> "Johnny"], "", NoPayload) :
                 id \in RequestIds}
        \cup {msg(a, id, EmptyObject, "", NoPayload) :
                 a \in {"deleteContact", "toggleFavorite"}, id \in RequestIds}
        \cup {msg("searchContacts", EmptyId, EmptyObject, q, NoPayload) :
                 q \in QueryTexts}
        \cup {msg("importContacts", EmptyId, EmptyObject, "", text) :
                 text \in ImportTexts}

\* chrome.runtime.onMessage / browser.runtime.onMessage: a message arrives at
\* the handler of the running extension
Receive ==
    /\ Len(requests) < MaxRequests
    /\ \E handler \in Handlers :
          /\ \A i \in 1..Len(requests) : requests[i].handler = handler
          /\ \E r \in Messages(handler) :
                requests' = Append(requests, HandleMessage(r))
    /\ UNCHANGED <<contacts, slot, quotaExceeded, now, issued, rt, last, other,
                   writer, sqliteVars, storage>>

\* storage.local.get('contacts') of request i completes
GetCompletes ==
    /\ \E i \in 1..Len(requests) :
          /\ requests[i].pc = "get"
          /\ \E rand \in Randoms :
                requests' = [requests EXCEPT ![i] =
                                AfterGet(@, StoredContacts(storage), now, rand)]
    /\ UNCHANGED <<contacts, slot, quotaExceeded, now, issued, rt, last, other,
                   writer, sqliteVars, storage>>

\* storage.local.set({ contacts }) of request i completes, or is rejected
\* because the quota is used up
SetCompletes ==
    /\ \E i \in 1..Len(requests) :
          /\ requests[i].pc = "set"
          /\ requests' = [requests EXCEPT ![i] = AfterSet(@, quotaExceeded)]
          /\ storage' = IF quotaExceeded THEN storage ELSE Arr(requests[i].list)
    /\ UNCHANGED <<contacts, slot, quotaExceeded, now, issued, rt, last, other,
                   writer, sqliteVars>>

\* storage.local.remove('contacts') of a clearAll request completes
RemoveCompletes ==
    /\ \E i \in 1..Len(requests) :
          /\ requests[i].pc = "remove"
          /\ requests' = [requests EXCEPT ![i] = Answered(@, Success(Bool(TRUE)))]
          /\ storage' = NoItem
    /\ UNCHANGED <<contacts, slot, quotaExceeded, now, issued, rt, last, other,
                   writer, sqliteVars>>

NextExtension ==
    \/ Receive
    \/ GetCompletes
    \/ SetCompletes
    \/ RemoveCompletes
    \/ QuotaChange

SpecExtension == InitExtension /\ [][NextExtension]_vars

\* ------------------------------------------------------------------ properties
Mutating ==
    {"createContact", "updateContact", "deleteContact", "toggleFavorite",
     "importContacts", "clearAll"}

\* the contact a createContact, updateContact or toggleFavorite call returned
Returned == last.ret.val

\* C1: each createContact call returns a Contact whose createdAt equals its
\* updatedAt (both the clock reading of the call) and that is stored under its
\* id; the id differs from the id returned by every earlier createContact call
\* except one that read the same clock value and drew the same random value.
C1_CreateIdFreshUnlessSameDraw ==
    last.op = "createContact" =>
        /\ Returned.createdAt = Returned.updatedAt
        /\ Returned.createdAt = Date(last.at)
        /\ GetContactOp(contacts, Returned.id) = last.ret
        /\ \A e \in last.preIssued :
               e.id = Returned.id => e.at = last.at /\ e.random = last.random

\* C1 as stated: the id returned by createContact differs from the id returned
\* by every earlier createContact call, and createdAt equals updatedAt.
C1_CreateIdDiffersFromEveryEarlier ==
    last.op = "createContact" =>
        /\ Returned.createdAt = Returned.updatedAt
        /\ \A e \in last.preIssued : e.id # Returned.id

\* a createContact at a clock reading at which an earlier createContact drew
\* another random value
C1_Witness ==
    /\ last.op = "createContact"
    /\ \E e \in last.preIssued : e.at = last.at /\ e.random # last.random

\* C2: getContact(createContact(c).id), called right after the create, returns
\* a Contact equal field for field to the one createContact returned.
C2_GetAfterCreate ==
    (/\ last.op = "getContact"
     /\ last.prev.op = "createContact"
     /\ last.id = last.prev.ret.val.id)
        => last.ret = last.prev.ret

\* a getContact of the id just created, in a store that held a contact before
C2_Witness ==
    /\ last.op = "getContact"
    /\ last.prev.op = "createContact"
    /\ last.id = last.prev.ret.val.id
    /\ last.ret.kind = "object"
    /\ Len(contacts) = 2

\* C3 as stated: every mutating operation that changed the collection issued
\* one full rewrite of the slot, and the slot then holds the serialization of
\* exactly the current collection.
C3_SlotHoldsCollectionAfterMutation ==
    (last.op \in Mutating /\ contacts # last.pre)
        => last.writes = 1 /\ slot = Stored(contacts)

\* C4 as stated: after exportContacts, clearAll and importContacts of the
\* exported text the collection equals, as a set of records, the collection S
\* that was exported.
RecordSet(m) == {m[i].val : i \in 1..Len(m)}

C4_RoundTripRestoresCollection ==
    rt.stage = 3 => RecordSet(contacts) = RecordSet(rt.S)

\* an element of a payload that carries an id
CarriesId(e) == e.kind = "object" /\ "id" \in DOMAIN e.val /\ e.val.id # EmptyId

\* the ids a payload brings that the collection m does not hold
NewIds(m, items) ==
    {items[i].val.id :
        i \in {j \in 1..Len(items) : CarriesId(items[j]) /\ ~Has(m, items[j].val.id)}}

\* the number M of elements of a payload whose id the collection m holds
PresentCount(m, items) ==
    Cardinality({j \in 1..Len(items) : CarriesId(items[j]) /\ Has(m, items[j].val.id)})

ImportReturned ==
    last.op = "importContacts" /\ last.payload.kind = "array" /\ ~last.threw

\* C5: when importContacts returns for an array payload, it returns the number
\* K of distinct ids that a record of the payload carries and the collection
\* did not hold before the call, and the collection grows by exactly those K
\* entries; records without an id and repeats of an id are not counted.
C5_ImportCountsDistinctNewIds ==
    ImportReturned =>
        LET K == Cardinality(NewIds(last.pre, last.payload.items))
        IN  /\ last.ret = Num(K)
            /\ Len(contacts) = Len(last.pre) + K
            /\ Keys(contacts) = Keys(last.pre) \cup NewIds(last.pre, last.payload.items)

\* C5 as stated: for a payload of N records of which M carry an id already
\* present, importContacts returns N - M and the collection grows by N - M.
C5_ImportReturnsNMinusM ==
    ImportReturned =>
        LET N == Len(last.payload.items)
            M == PresentCount(last.pre, last.payload.items)
        IN  /\ last.ret = Num(N - M)
            /\ Len(contacts) = Len(last.pre) + N - M

\* an import of a payload of two records with the same new id, which adds one
C5_Witness ==
    /\ ImportReturned
    /\ Len(last.payload.items) = 2
    /\ CarriesId(last.payload.items[1])
    /\ last.payload.items[2] = last.payload.items[1]
    /\ last.ret = Num(1)
    /\ Len(contacts) = Len(last.pre) + 1

\* C6 as stated: when importContacts throws 'Invalid import data format', the
\* collection and the slot are what they were before the call.
C6_FailedImportChangesNothing ==
    (last.op = "importContacts" /\ last.threw)
        => contacts = last.pre /\ slot = last.preSlot

\* C7 as stated: importContacts throws only when the input does not parse as
\* an array; for an array, whatever its elements, it returns a count.
C7_ArrayImportNeverThrows ==
    (last.op = "importContacts" /\ last.payload.kind = "array")
        => ~last.threw /\ last.ret.kind = "number"

AbsentIdCall ==
    /\ last.op \in {"updateContact", "toggleFavorite", "deleteContact"}
    /\ ~Has(last.pre, last.id)

\* C8: for an id absent from the collection updateContact and toggleFavorite
\* return null and deleteContact returns false; none throws, and the collection
\* and the slot are left unchanged.
C8_AbsentIdIsNoOp ==
    AbsentIdCall =>
        /\ last.ret = IF last.op = "deleteContact" THEN Bool(FALSE) ELSE Null
        /\ ~last.threw
        /\ contacts = last.pre
        /\ slot = last.preSlot

\* an updateContact with partial data for an absent id on a store that holds
\* a contact
C8_Witness ==
    /\ last.op = "updateContact"
    /\ ~Has(last.pre, last.id)
    /\ last.data # EmptyObject
    /\ Len(last.pre) > 0
    /\ last.ret = Null

\* C9: after deleteContact(id) on a present id, getContact(id) returns null and
\* every other contact is unchanged; deleteContact on an absent id returns
\* false and performs no persistence write.
C9_DeleteRemovesOnlyThatContact ==
    /\ last.op = "deleteContact" =>
           IF Has(last.pre, last.id)
           THEN /\ last.ret = Bool(TRUE)
                /\ GetContactOp(contacts, last.id) = Null
                /\ Keys(contacts) = Keys(last.pre) \ {last.id}
                /\ \A k \in Keys(contacts) : Get(contacts, k) = Get(last.pre, k)
           ELSE /\ last.ret = Bool(FALSE)
                /\ last.writes = 0
                /\ slot = last.preSlot
                /\ contacts = last.pre
    /\ (/\ last.op = "getContact"
        /\ last.prev.op = "deleteContact"
        /\ last.id = last.prev.id)
           => last.ret = Null

\* a deleteContact of the younger of two contacts, which leaves the older one
C9_Witness ==
    /\ last.op = "deleteContact"
    /\ Len(last.pre) = 2
    /\ last.pre[2].key = last.id
    /\ last.ret = Bool(TRUE)
    /\ Len(contacts) = 1

EmptyUpdate ==
    /\ last.op = "updateContact"
    /\ last.data = EmptyObject
    /\ Has(last.pre, last.id)

\* C10: for every present id, updateContact(id, {}) leaves every field of the
\* contact unchanged except updatedAt, which becomes the clock reading of the
\* call (equal to, not greater than, the previous updatedAt when the clock has
\* not advanced since).
C10_EmptyUpdateRefreshesUpdatedAt ==
    EmptyUpdate =>
        LET old == Get(last.pre, last.id)
            new == Get(contacts, last.id)
        IN  /\ last.ret = Obj(new)
            /\ DOMAIN new = DOMAIN old \cup {"updatedAt"}
            /\ \A f \in DOMAIN old \ {"updatedAt"} : new[f] = old[f]
            /\ new.updatedAt = Date(last.at)

\* C10 as stated: updateContact(id, {}) leaves every field but updatedAt
\* unchanged and the new updatedAt is strictly greater than the previous one.
C10_EmptyUpdateStrictlyIncreases ==
    EmptyUpdate =>
        LET old == Get(last.pre, last.id)
            new == Get(contacts, last.id)
        IN  /\ \A f \in DOMAIN old \ {"updatedAt"} : new[f] = old[f]
            /\ new.updatedAt.ms > old.updatedAt.ms

\* an updateContact(id, {}) of a tagged contact at the clock reading of its
\* previous mutation
C10_Witness ==
    /\ EmptyUpdate
    /\ "tags" \in DOMAIN Get(last.pre, last.id)
    /\ Get(last.pre, last.id).updatedAt = Date(last.at)
    /\ Get(contacts, last.id).updatedAt = Date(last.at)

PresentUpdate ==
    /\ last.op = "updateContact"
    /\ Has(last.pre, last.id)

\* C11: updateContact on a present id merges field by field: every field the
\* partial data does not carry keeps its prior value (updatedAt aside, which
\* the call refreshes), every field it carries takes the given value, and
\* without tags in the partial data the contact keeps its prior tags.
C11_UpdateMergesFieldByField ==
    PresentUpdate =>
        LET old == Get(last.pre, last.id)
            new == Get(contacts, last.id)
            given == DOMAIN last.data
        IN  /\ last.ret = Obj(new)
            /\ DOMAIN new = DOMAIN old \cup given \cup {"updatedAt"}
            /\ \A f \in DOMAIN old \ (given \cup {"updatedAt"}) : new[f] = old[f]
            /\ \A f \in given : new[f] = last.data[f]
            /\ "tags" \notin given =>
                   /\ "tags" \in DOMAIN new <=> "tags" \in DOMAIN old
                   /\ "tags" \in DOMAIN old => new.tags = old.tags

\* an updateContact without tags, carrying a new first name, of a contact that
\* has tags
C11_Witness ==
    /\ PresentUpdate
    /\ "tags" \notin DOMAIN last.data
    /\ "firstName" \in DOMAIN last.data
    /\ "tags" \in DOMAIN Get(last.pre, last.id)
    /\ Get(last.pre, last.id).tags # <<>>
    /\ Get(contacts, last.id).tags = Get(last.pre, last.id).tags
    /\ Get(contacts, last.id).firstName # Get(last.pre, last.id).firstName

\* two consecutive toggleFavorite calls on the same present id
ToggledTwice ==
    /\ last.op = "toggleFavorite"
    /\ last.prev.op = "toggleFavorite"
    /\ last.prev.id = last.id
    /\ Has(last.prev.pre, last.id)

C13_FailedWritePropagates ==
    (last.op \in Mutating /\ last.setItemThrew) => last.threw

\* C15 as stated: every contact of the collection has createdAt <= updatedAt
\* (compared as instants, whether held as a Date or as an ISO string).
C15_CreatedNotAfterUpdated ==
    \A i \in 1..Len(contacts) :
        contacts[i].val.createdAt.ms <= contacts[i].val.updatedAt.ms

\* C16 as stated: no two entries of the collection carry the same id, each
\* entry is stored under its own id, and updateContact (for any partial data)
\* and toggleFavorite on a present id preserve the contact's id and createdAt.
C16_IdUniqueAndImmutable ==
    /\ \A i, j \in 1..Len(contacts) :
           contacts[i].val.id = contacts[j].val.id => i = j
    /\ \A i \in 1..Len(contacts) : contacts[i].val.id = contacts[i].key
    /\ (last.op \in {"updateContact", "toggleFavorite"} /\ Has(last.pre, last.id))
           => /\ Returned.id = Get(last.pre, last.id).id
              /\ Returned.createdAt = Get(last.pre, last.id).createdAt

Searched == last.op = "searchContacts"

\* the contacts of a sequence that satisfy a test, in the order of the sequence
Kept(all, Test(_)) == SelectSeq(all, Test)

\* C17: searchContacts with the empty filter object returns the contacts that
\* getAllContacts returns, each once and in the same order, and no
\* searchContacts call, whatever its filters and whether or not it throws,
\* changes the collection or the slot.
C17_EmptySearchIsGetAll ==
    /\ Searched => contacts = last.pre /\ slot = last.preSlot /\ last.writes = 0
    /\ (Searched /\ last.data = EmptyObject) =>
           /\ ~last.threw
           /\ last.ret = Arr(GetAllContactsOp(last.pre))
           /\ Len(last.ret.val) = Len(last.pre)
           /\ \A i \in 1..Len(last.pre) : last.ret.val[i] = last.pre[i].val
           /\ last.prev.op = "getAllContacts" => last.ret = last.prev.ret

\* a searchContacts({}) that returns both contacts of a store, one of them a
\* favorite without tags
C17_Witness ==
    /\ Searched
    /\ last.data = EmptyObject
    /\ Len(last.pre) = 2
    /\ Len(last.ret.val) = 2
    /\ \E i \in 1..2 : IsFavorite(last.ret.val[i]) /\ "tags" \notin DOMAIN last.ret.val[i]

\* the free-text match as C18 states it
TextMatches(c, text) ==
    \/ \E f \in {"firstName", "lastName", "email", "company"} \cap DOMAIN c :
           Includes(ToLowerCase(Chars(c[f])), ToLowerCase(Chars(text)))
    \/ "phone" \in DOMAIN c /\ Includes(Chars(c.phone), Chars(text))

\* C18 as stated: searchContacts with only a search text keeps a contact
\* exactly when the text is a case-insensitive substring of firstName,
\* lastName, email or company, or a case-sensitive substring of phone as typed.
C18_TextFilterMatchesAnyField ==
    (Searched /\ DOMAIN last.data = {"search"} /\ last.data.search # "") =>
        /\ ~last.threw
        /\ last.ret = Arr(Kept(Values(last.pre), LAMBDA c : TextMatches(c, last.data.search)))

\* the tag and favorite tests as C19 states them
TagListOf(c) == IF "tags" \in DOMAIN c THEN c.tags ELSE <<>>

PassesTagAndFavorite(c, filters) ==
    /\ ("tags" \in DOMAIN filters /\ filters.tags # <<>>) =>
           \E i \in 1..Len(filters.tags) :
               \E j \in 1..Len(TagListOf(c)) : TagListOf(c)[j] = filters.tags[i]
    /\ "isFavorite" \in DOMAIN filters => IsFavorite(c) = filters.isFavorite

\* C19 as stated: searchContacts with a tag filter, a favorite filter or both
\* returns exactly the contacts that have at least one of the requested tags
\* in their tag list and whose isFavorite equals the requested value.
C19_TagAndFavoriteFilters ==
    (Searched /\ DOMAIN last.data # {} /\ DOMAIN last.data \subseteq {"tags", "isFavorite"}) =>
        /\ ~last.threw
        /\ last.ret = Arr(Kept(Values(last.pre), LAMBDA c : PassesTagAndFavorite(c, last.data)))

\* the order of two values of a sort field as C20 states it: timestamps as
\* instants, first and last names without regard to case, email as text
KeyLess(sortBy, x, y) ==
    IF sortBy \in TimeFields THEN x.ms < y.ms
    ELSE IF sortBy \in NameKeys
    THEN StringLess(ToLowerCase(Chars(x)), ToLowerCase(Chars(y)))
    ELSE StringLess(Chars(x), Chars(y))

\* C20 as stated: searchContacts with only a sort key (and order) returns the
\* contacts ordered by that field, ascending unless sortOrder is 'desc', with
\* contacts that compare equal in their order of the collection.
C20_SortedByKeyStable ==
    (Searched /\ "sortBy" \in DOMAIN last.data
              /\ DOMAIN last.data \subseteq {"sortBy", "sortOrder"}) =>
        LET all == Values(last.pre)
            n == Len(all)
            sortBy == last.data.sortBy
            desc == "sortOrder" \in DOMAIN last.data /\ last.data.sortOrder = "desc"
            before(a, b) == IF desc THEN KeyLess(sortBy, b[sortBy], a[sortBy])
                                    ELSE KeyLess(sortBy, a[sortBy], b[sortBy])
        IN  /\ ~last.threw
            /\ \E p \in Orderings(n) :
                   /\ last.ret = Arr([k \in 1..n |-> all[p[k]]])
                   /\ \A k, l \in 1..n :
                          k < l => \/ before(all[p[k]], all[p[l]])
                                   \/ (~before(all[p[l]], all[p[k]]) /\ p[k] < p[l])


\* ---------------------------------------------------------------- getStats
\* how many contacts of the list carry the tag
CarryCount(list, tag) ==
    Cardinality({i \in 1..Len(list) :
                    \E j \in 1..Len(TagListOf(list[i])) : TagListOf(list[i])[j] = tag})

\* C21 as stated: for every collection getStats returns total = the number of
\* contacts, favorites = the number whose isFavorite is true, withEmail and
\* withPhone = the number with a non-empty email / phone, and byTag maps each
\* tag to the number of contacts that carry it.
C21_StatsCountContacts ==
    last.op = "getStats" =>
        LET list == Values(last.pre)
            seen == UNION {{TagListOf(list[i])[j] : j \in 1..Len(TagListOf(list[i]))} :
                              i \in 1..Len(list)}
        IN  /\ ~last.threw
            /\ Returned.total = Len(list)
            /\ Returned.favorites = Cardinality({i \in 1..Len(list) : IsFavorite(list[i])})
            /\ Returned.withEmail = Cardinality({i \in 1..Len(list) : Truthy(list[i], "email")})
            /\ Returned.withPhone = Cardinality({i \in 1..Len(list) : Truthy(list[i], "phone")})
            /\ DOMAIN Returned.byTag = seen
            /\ \A tag \in seen : Returned.byTag[tag] = CarryCount(list, tag)

\* the records of an import payload that importContacts inserts: those with an
\* id that the collection does not hold
Inserted(m, jsonData) ==
    {jsonData.items[i].val : i \in {j \in 1..Len(jsonData.items) :
        /\ jsonData.items[j].kind = "object"
        /\ CarriesId(jsonData.items[j])
        /\ ~Has(m, jsonData.items[j].val.id)}}

\* C27: importContacts stores a record that has an id and no tags field exactly
\* as it is in the payload, without adding a tags field; and getStats on a
\* collection that holds a contact without tags throws instead of returning.
C27_TaglessImportBreaksStats ==
    /\ (last.op = "importContacts" /\ last.payload.kind = "array" /\ ~last.threw) =>
           \A e \in Inserted(last.pre, last.payload) :
               "tags" \notin DOMAIN e =>
                   /\ Has(contacts, e.id)
                   /\ Get(contacts, e.id) = e
                   /\ "tags" \notin DOMAIN Get(contacts, e.id)
    /\ (last.op = "getStats"
          /\ \E i \in 1..Len(last.pre) : "tags" \notin DOMAIN last.pre[i].val) =>
           /\ last.threw
           /\ last.ret = Undefined
           /\ contacts = last.pre

\* getStats called right after an import put a record without tags into the
\* collection
C27_Witness ==
    /\ last.op = "getStats"
    /\ last.threw
    /\ last.prev.op = "importContacts"
    /\ \E i \in 1..Len(contacts) :
           /\ contacts[i].val = RecordBob
           /\ ~Has(last.prev.pre, RecordBob.id)


\* ------------------------------------------------------------ two instances
\* the ids that createContact of the first / the second instance generated
CreatedByFirst == {e.id : e \in {x \in issued : "by" \notin DOMAIN x}}
CreatedBySecond == {e.id : e \in {x \in issued : "by" \in DOMAIN x}}
SlotKeys == IF slot.kind = "object"
            THEN {slot.entries[i].key : i \in 1..Len(slot.entries)}
            ELSE {}

C23_ScheduledBackupFailureContained ==
    \A i \in 1..Len(calls) :
        (calls[i].from = "timer" /\ calls[i].status # "pending") =>
            /\ calls[i].status # "threw"
            /\ (calls[i].status = "caught" /\ calls[i].pre.db.kind = "db") =>
                   calls[i].post.db.contacts = calls[i].pre.db.contacts

\* the state the store is in after the call c, issued in the state m, has run
\* alone to its end, with the random draw, clock reading and quota c had
RECURSIVE RunAll(_, _, _)
RunAll(m, c, done) ==
    IF c.status # "pending"
    THEN m
    ELSE LET s == Step(m, c, done.rand, done.at, done.full)
         IN  RunAll(s.m, s.c, done)

SerialCall(m, done) ==
    LET b == Begin(m, NewCall(done.op, done.arg, done.from, m, TRUE), done.full)
    IN  RunAll(b.m, b.c, done)

\* the call i and the call after it are mutating calls, the second issued
\* without awaiting the first, and both have settled
Overlapped(i) ==
    /\ i + 1 = Len(calls)
    /\ Pending = {}
    /\ calls[i].op \in Mutating
    /\ calls[i + 1].op \in Mutating
    /\ calls[i].idle
    /\ ~calls[i + 1].idle

\* C25, amended: when a mutating call is issued without awaiting the mutating
\* call before it, then once both have settled the collection and the slot are
\* those of the serial execution of the two calls in the order they were
\* issued; the Contact the second call returned was in the collection when it
\* returned, and so was the Contact the first call returned unless the second
\* call is a clearAll or a deleteContact of that contact.
C25_OverlappingCallsRunInIssueOrder ==
    \A i \in 1..(Len(calls) - 1) :
        LET a == calls[i]
            b == calls[i + 1]
            s == SerialCall(SerialCall(a.pre, a), b)
        IN  Overlapped(i) =>
                /\ db.contacts = s.db.contacts
                /\ slot = s.slot
                /\ b.present
                /\ ~a.present =>
                       \/ b.op = "clearAll"
                       \/ b.op = "deleteContact" /\ b.arg.id = a.ret.val.id

\* two createContact calls issued back to back on a store that was not
\* initialized, over a slot that holds a contact: both have returned
C25_Witness ==
    \E i \in 1..(Len(calls) - 1) :
        /\ Overlapped(i)
        /\ ~calls[i].pre.isInitialized
        /\ calls[i].pre.slot # NoItem
        /\ calls[i].op = "createContact"
        /\ calls[i + 1].op = "createContact"
        /\ calls[i].ret.val.id # calls[i + 1].ret.val.id
        /\ Len(db.contacts) = 3

\* C25 as stated: when a mutating call is issued without awaiting the mutating
\* call before it, then once both have settled the collection and the slot are
\* those that one of the two serial orders of the calls gives, and the Contact
\* each call returned was in the collection when the call returned.
C25_OverlappingCallsSerialize ==
    \A i \in 1..(Len(calls) - 1) :
        LET a == calls[i]
            b == calls[i + 1]
        IN  Overlapped(i) =>
                /\ \E s \in {SerialCall(SerialCall(a.pre, a), b),
                             SerialCall(SerialCall(a.pre, b), a)} :
                       /\ db.contacts = s.db.contacts
                       /\ slot = s.slot
                /\ a.present
                /\ b.present

\* C26 as stated: a query that ran alone on a store that had a collection
\* (open or closed) leaves the collection and the slot as they were.
C26_QueriesChangeNothing ==
    \A i \in 1..Len(calls) :
        LET c == calls[i]
        IN  (/\ c.op \in Queries
             /\ c.status # "pending"
             /\ c.alone
             /\ c.pre.db.kind = "db") =>
                /\ c.post.db.contacts = c.pre.db.contacts
                /\ c.post.slot = c.pre.slot

\* C29 as stated: at most one interval of scheduleBackup is active.
C29_AtMostOneBackupTimer == timers <= 1

\* C30 as stated: after r = backup(), clearAll() and restore(r), each awaited,
\* the collection holds every contact it held when backup() ran.
C30_RestoreBringsBackSnapshot ==
    \A i \in 1..(Len(calls) - 2) :
        LET b == calls[i]
            c == calls[i + 1]
            r == calls[i + 2]
        IN  (/\ b.op = "backup" /\ b.from = "caller" /\ b.alone /\ b.status = "returned"
             /\ c.op = "clearAll" /\ c.alone /\ c.status = "returned"
             /\ r.op = "restore" /\ r.alone /\ r.status = "returned"
             /\ r.arg.ref = b.ret.val) =>
                \A id \in Keys(b.post.db.contacts) : Has(r.post.db.contacts, id)

\* C24: the message handler accepts a request for each of the ten actions and
\* answers every request with exactly one response: a request that is handled
\* to its end has one response and a request still waiting has none, and the
\* response has success false exactly when the operation threw or the action
\* is none of the ten, success true with the operation's result otherwise.
C24_OneResponsePerRequest ==
    \A i \in 1..Len(requests) :
        LET r == requests[i]
        IN  /\ Len(r.responses) = (IF r.pc = "done" THEN 1 ELSE 0)
            /\ r.pc = "done" =>
                  /\ r.responses[1].success = ~(r.threw \/ r.action \notin Actions)
                  /\ r.responses[1].success =>
                        DOMAIN r.responses[1] = {"success", "data"}
                  /\ ~r.responses[1].success =>
                        DOMAIN r.responses[1] = {"success", "error"}

\* every message has been answered, and all of them were saveContact,
\* updateContact or toggleFavorite
OnlyEdits ==
    /\ requests # <<>>
    /\ \A i \in 1..Len(requests) :
          /\ requests[i].pc = "done"
          /\ requests[i].action \in {"saveContact", "updateContact", "toggleFavorite"}

\* the successful toggleFavorite requests on the contact with this id
TogglesOf(id) ==
    {i \in 1..Len(requests) :
        /\ requests[i].action = "toggleFavorite"
        /\ requests[i].id = id
        /\ requests[i].responses[1].success}

\* C28: when the handling of two mutating requests overlaps, the stored list
\* after both responses reflects both mutations: a contact that a saveContact
\* answered with success is in the stored list, and a favourite flag that was
\* toggled once with success is the flag the response carried.
C28_AnsweredMutationsAreStored ==
    OnlyEdits =>
        LET list == StoredContacts(storage)
        IN  \A i \in 1..Len(requests) :
                LET r == requests[i]
                IN  /\ (r.action = "saveContact" /\ r.responses[1].success) =>
                          r.responses[1].data.val.id \in IdsOf(list)
                    /\ (i \in TogglesOf(r.id) /\ Cardinality(TogglesOf(r.id)) = 1) =>
                          /\ r.id \in IdsOf(list)
                          /\ IsFavorite(list[FindIndex(list, r.id)])
                                 = r.responses[1].data.val.isFavorite

====
